---------------------------- MODULE Spec2Model ----------------------------
(***************************************************************************)
(* A model of the smoltrade trading core: the Portfolio ledger             *)
(* (autotrader/portfolio.py), the simulated broker                         *)
(* (autotrader/execution/paper.py) and the order sizing and iteration of   *)
(* the engine (autotrader/engine.py).                                      *)
(*                                                                         *)
(* Numbers.  The program computes with Python floats; the model computes   *)
(* with exact fixed-point integers:                                        *)
(*   - a quantity is a whole number of quanta, QtyUnit quanta to a share;  *)
(*     the ledger's 1e-9 tolerance is Tol quanta;                          *)
(*   - a price is a whole number of 1/PriceDen money units per share;      *)
(*   - cash, commission and every quantity x price product are whole       *)
(*     numbers of 1/MoneyDen money units, MoneyDen = QtyUnit * PriceDen,   *)
(*     so `quantity * fill_price + commission` is the code's expression    *)
(*     verbatim;                                                           *)
(*   - average_price, the one true quotient the ledger stores, is an exact *)
(*     fraction <<numerator, denominator>> in lowest terms;                *)
(*   - a percentage of the configuration is a fraction <<num, den>>.       *)
(* Floating-point rounding is therefore outside the model.                 *)
(***************************************************************************)
EXTENDS Integers, Sequences, FiniteSets, TLC

VARIABLES
    cash,            \* Portfolio.cash
    starting_cash,   \* Portfolio._starting_cash
    positions,       \* Portfolio.positions: symbol -> Position
    trade_history,   \* PaperBroker.trade_history
    slippage_bps,    \* PaperBroker.slippage_bps
    commission,      \* PaperBroker.commission
    config,          \* AutoTradingBot.config (the fields the engine reads)
    last,            \* the last call made: operation, arguments, outcome
    ledger_log,      \* history variable: the fills the ledger has applied
    baseline,        \* history variable: the cash last given to the ledger
    steps,           \* number of calls made so far
    candles,         \* the closes the data provider returns for the window
    bt,              \* AutoTradingBot.backtest: where the call stands
    equity_curve,    \* backtest: the equity_curve list
    results,         \* what the last backtest or drawdown call returned
    earlier,         \* history variable: what the backtest before it returned
    strategy,        \* the strategy object and its fields
    clock,           \* datetime.now(), in minutes
    call,            \* history variable: the last call on the strategy
    oracle,          \* the analyzer's and the LLM's answers, by backtest bar
    emitted,         \* history variable: when the LLM strategy gave a signal
    loop,            \* AutoTradingBot.run_forever: where the loop stands
    sched            \* TradingScheduler, its threads and the schedule's jobs

\* The state of the backtest, of the strategy and of its collaborators.
replay == <<candles, bt, equity_curve, results, earlier, strategy, clock,
            call, oracle, emitted, loop, sched>>

vars == <<cash, starting_cash, positions, trade_history, slippage_bps,
          commission, config, last, ledger_log, baseline, steps, candles, bt,
          equity_curve, results, earlier, strategy, clock, call, oracle,
          emitted, loop, sched>>

---------------------------------------------------------------------------
(* Bounds and units *)

\* Calls explored per behaviour.
MaxSteps == 3

\* Engine iterations explored per behaviour.
MaxIterations == 5

\* Quanta per whole share (the resolution of quantities).
QtyUnit == 2

\* The ledger's tolerance 1e-9, in quanta.
Tol == 1

\* Prices are multiples of 1/PriceDen: at the slippage values modelled
\* (multipliers 1 and 5/4) every fill price of a whole market price is exact.
PriceDen == 4 * 5

MoneyDen == QtyUnit * PriceDen

Symbols == {"AAPL", "MSFT"}

\* Optional arguments: None is the empty tuple, a given value x is <<x>>.
None == << >>

Some(x) == <<x>>

---------------------------------------------------------------------------
(* Arithmetic helpers *)

Abs(x) == IF x < 0 THEN -x ELSE x

Max(a, b) == IF a >= b THEN a ELSE b

Min(a, b) == IF a <= b THEN a ELSE b

RECURSIVE GCD(_, _)
GCD(a, b) == IF b = 0 THEN a ELSE GCD(b, a % b)

\* The fraction n/d (d > 0) in lowest terms.
Frac(n, d) ==
    LET g == GCD(Abs(n), d)
    IN  IF g = 0 THEN <<0, 1>> ELSE <<n \div g, d \div g>>

\* str.lower() on the side and action strings the program meets.
Lower(s) ==
    CASE s = "BUY" -> "buy"
      [] s = "SELL" -> "sell"
      [] s = "HOLD" -> "hold"
      [] OTHER -> s

---------------------------------------------------------------------------
(* Portfolio ledger: autotrader/portfolio.py *)

\* Position(symbol=symbol): quantity 0.0, average_price 0.0.
NewPosition == [quantity |-> 0, average_price |-> <<0, 1>>]

EmptyPositions == [s \in {} |-> NewPosition]

\* del self.positions[symbol]
Without(pos, symbol) == [s \in (DOMAIN pos) \ {symbol} |-> pos[s]]

\* Portfolio.position_size
position_size(pos, symbol) ==
    IF symbol \in DOMAIN pos THEN pos[symbol].quantity ELSE 0

\* Portfolio.market_value / Position.market_value, in 1/MoneyDen units.
market_value(pos, prices) ==
    LET held == (DOMAIN pos) \cap (DOMAIN prices)
        RECURSIVE Sum(_)
        Sum(S) == IF S = {} THEN 0
                  ELSE LET s == CHOOSE x \in S : TRUE
                       IN  pos[s].quantity * prices[s] + Sum(S \ {s})
    IN  Sum(held)

\* Portfolio.total_equity
total_equity(c, pos, prices) == c + market_value(pos, prices)

\* update_on_fill, lines 55-58: the position looked up, or created AND stored.
PositionsOnEntry(pos, symbol) ==
    IF symbol \in DOMAIN pos THEN pos ELSE pos @@ (symbol :> NewPosition)

\* A slip of lines 34-35: the lookup stores a Position for a symbol it does
\* not find, as the lookup of update_on_fill does.
PositionsAfterLookupStored(pos, symbol) == PositionsOnEntry(pos, symbol)

\* get_position, lines 34-35, under position_size: positions.get(symbol)
\* looks the symbol up and stores nothing.
PositionsAfterLookup(pos, symbol) == pos

\* update_on_fill, line 61
BuyTotalCost(quantity, fill_price, comm) == quantity * fill_price + comm

\* A slip of line 74: the commission added to the proceeds of a sell.
SellProceedsAddsCommission(quantity, fill_price, comm) ==
    quantity * fill_price + comm

\* update_on_fill, line 74
SellProceeds(quantity, fill_price, comm) == quantity * fill_price - comm

\* update_on_fill, line 72: the over-sell test.
OverSell(held, quantity) == quantity > held + Tol

\* update_on_fill, line 77: the closed-position test after a sell.
ClosedAfterSell(remaining) == remaining <= Tol

\* A slip of lines 65-68: the cost basis is the price of the last fill.
NewAveragePriceLastFill(position, quantity, fill_price, new_quantity) ==
    Frac(fill_price, 1)

\* update_on_fill, lines 65-68: the weighted average cost basis.
NewAveragePrice(position, quantity, fill_price, new_quantity) ==
    LET n == position.average_price[1]
        d == position.average_price[2]
    IN  Frac(position.quantity * n + quantity * fill_price * d, new_quantity * d)

\* Portfolio.update_on_fill as a function of the ledger: the outcome ("ok" or
\* the exception raised) and the ledger it leaves behind.
UpdateOnFillResult(c, pos, symbol, quantity, fill_price, side0, comm) ==
    LET side == Lower(side0)
    IN
    IF side \notin {"buy", "sell"}
    THEN [outcome |-> "ValueError", cash |-> c, positions |-> pos]
    ELSE IF quantity <= 0
    THEN [outcome |-> "ValueError", cash |-> c, positions |-> pos]
    ELSE
      LET stored == PositionsOnEntry(pos, symbol)
          position == stored[symbol]
      IN
      IF side = "buy"
      THEN
        LET new_quantity == position.quantity + quantity
        IN  IF new_quantity <= 0
            THEN [outcome |-> "RuntimeError", cash |-> c, positions |-> stored]
            ELSE [outcome |-> "ok",
                  cash |-> c - BuyTotalCost(quantity, fill_price, comm),
                  positions |->
                     [stored EXCEPT ![symbol] =
                        [quantity |-> new_quantity,
                         average_price |->
                            NewAveragePrice(position, quantity, fill_price,
                                            new_quantity)]]]
      ELSE
        IF OverSell(position.quantity, quantity)
        THEN [outcome |-> "RuntimeError", cash |-> c, positions |-> stored]
        ELSE
          LET remaining == position.quantity - quantity
          IN  [outcome |-> "ok",
               cash |-> c + SellProceeds(quantity, fill_price, comm),
               positions |->
                  IF ClosedAfterSell(remaining)
                  THEN Without(stored, symbol)
                  ELSE [stored EXCEPT ![symbol].quantity = remaining]]

\* Portfolio.reset: the cash it sets (line 93).
ResetCash(sc, c) == IF c = None THEN sc ELSE c[1]

\* A slip of lines 95-96: the baseline is never replaced.
ResetStartingCashKept(sc, c) == sc

\* Portfolio.reset: the baseline it leaves (lines 95-96).
ResetStartingCash(sc, c) == IF c = None THEN sc ELSE c[1]

---------------------------------------------------------------------------
(* Orders and trades: autotrader/execution/base.py *)

\* Order(symbol, quantity, side); type and time_in_force keep their defaults
\* and are read by nothing.
Order(symbol, quantity, side) ==
    [symbol |-> symbol, quantity |-> quantity, side |-> side]

\* Trade(order, price, timestamp, commission); the timestamp is read by
\* nothing in the ledger or the venue and is left out.
Trade(order, price, comm) ==
    [order |-> order, price |-> price, commission |-> comm]

\* Trade.gross_value
gross_value(trade) == trade.price * trade.order.quantity

\* Trade.net_value
net_value(trade) ==
    IF trade.order.side = "buy"
    THEN gross_value(trade) + trade.commission
    ELSE gross_value(trade) - trade.commission

---------------------------------------------------------------------------
(* Simulated broker: autotrader/execution/paper.py *)

\* A slip of line 32: only a negative market price is rejected.
BadMarketPriceNegativeOnly(market_price) == market_price < 0

\* submit_order, line 32: the market price is rejected.
BadMarketPrice(market_price) == market_price <= 0

\* A slip of lines 37-40: both sides multiply by slippage_mult.
FillPriceMultiplied(side, market_price, bps) ==
    (market_price * (10000 + bps)) \div 10000

\* submit_order, lines 36-40: slippage_mult = 1 + slippage_bps / 10_000, a
\* buy fills at market_price * slippage_mult, anything else at
\* market_price / slippage_mult.  The quotients are exact for the prices and
\* slippage values of the model (ExactFills below).
FillPrice(side, market_price, bps) ==
    IF side = "buy"
    THEN (market_price * (10000 + bps)) \div 10000
    ELSE (market_price * 10000) \div (10000 + bps)

\* A slip of line 51: the trade is put at the head of the history.
RecordedFirst(history, trade) == <<trade>> \o history

\* Line 51: self.trade_history.append(trade)
Recorded(history, trade) == Append(history, trade)

\* PaperBroker.submit_order as a function of the venue's state.
SubmitOrderResult(c, pos, history, bps, comm, order, market_price) ==
    IF BadMarketPrice(market_price)
    THEN [outcome |-> "ValueError", cash |-> c, positions |-> pos,
          trade_history |-> history]
    ELSE
      LET fill_price == FillPrice(order.side, market_price, bps)
          r == UpdateOnFillResult(c, pos, order.symbol, order.quantity,
                                  fill_price, order.side, comm)
      IN  IF r.outcome # "ok"
          THEN [outcome |-> r.outcome, cash |-> r.cash,
                positions |-> r.positions, trade_history |-> history]
          ELSE [outcome |-> "ok", cash |-> r.cash, positions |-> r.positions,
                trade_history |->
                    Recorded(history, Trade(order, fill_price, comm))]

---------------------------------------------------------------------------
(* Order sizing: autotrader/engine.py, AutoTradingBot._create_order *)

\* A slip of line 172: the budget ignores the position cap.
BuyBudgetRiskOnly(c, pos, cfg, symbol, market_price) ==
    c * cfg.risk_per_trade[1] * cfg.max_position_pct[2]

\* Lines 166-172.  With risk_per_trade = rn/rd and max_position_pct = mn/md
\* the budget is returned multiplied by rd * md, so that it stays a whole
\* number: min(cash * risk_per_trade, max(0, equity * max_position_pct
\* - current_qty * market_price)).
BuyBudget(c, pos, cfg, symbol, market_price) ==
    LET rn == cfg.risk_per_trade[1]
        rd == cfg.risk_per_trade[2]
        mn == cfg.max_position_pct[1]
        md == cfg.max_position_pct[2]
        current_qty == position_size(pos, symbol)
        equity == total_equity(c, pos, symbol :> market_price)
        current_value == current_qty * market_price
        remaining_value == Max(0, equity * mn - current_value * md)
    IN  Min(c * rn * md, remaining_value * rd)

\* A slip of line 176: the quotient rounded up.
BuyQuantityCeil(budget, cfg, market_price) ==
    (budget + cfg.risk_per_trade[2] * cfg.max_position_pct[2]
                  * market_price * QtyUnit - 1)
        \div (cfg.risk_per_trade[2] * cfg.max_position_pct[2]
                  * market_price * QtyUnit)

\* Line 176: math.floor(budget / market_price), in whole shares.
BuyQuantity(budget, cfg, market_price) ==
    budget \div (cfg.risk_per_trade[2] * cfg.max_position_pct[2]
                 * market_price * QtyUnit)

\* A slip of line 187: a sell order for one share of the position.
SellOneShare(current_qty) == Min(current_qty, QtyUnit)

\* Line 187: the quantity of a sell order.
SellQuantity(current_qty) == current_qty

\* _create_order: the Order, or None.
CreateOrder(c, pos, cfg, action0, symbol, market_price) ==
    LET action == Lower(action0)
    IN
    IF action \notin {"buy", "sell"} THEN None
    ELSE IF action = "buy"
    THEN
      LET budget == BuyBudget(c, pos, cfg, symbol, market_price)
      IN  IF budget <= 0 THEN None
          ELSE
            LET quantity == BuyQuantity(budget, cfg, market_price)
            IN  IF quantity <= 0 THEN None
                ELSE Some(Order(symbol, quantity * QtyUnit, "buy"))
    ELSE
      LET current_qty == position_size(pos, symbol)
      IN  IF current_qty <= 0 THEN None
          ELSE Some(Order(symbol, SellQuantity(current_qty), "sell"))

---------------------------------------------------------------------------
(* History variable: what the ledger has applied since the baseline *)

EmptyLog == [base |-> 0, buys |-> 0, sells |-> 0, n |-> 0]

\* The ledger_log after a call to update_on_fill with the given outcome.
Logged(log, outcome, side0, quantity, fill_price, comm) ==
    IF outcome # "ok" THEN log
    ELSE IF Lower(side0) = "buy"
    THEN [log EXCEPT !.buys = @ + quantity * fill_price + comm, !.n = @ + 1]
    ELSE [log EXCEPT !.sells = @ + quantity * fill_price - comm, !.n = @ + 1]

---------------------------------------------------------------------------
(* Inputs *)

CashValues == {4 * MoneyDen, 8 * MoneyDen}

CommissionValues == {0, MoneyDen}

SlippageValues == {0, 2500}

\* <<risk_per_trade, max_position_pct>>
RiskValues == {<<<<1, 4>>, <<1, 2>>>>, <<<<1, 1>>, <<1, 1>>>>}

QtyValues == {0, Tol, QtyUnit, QtyUnit + Tol}

\* Market prices: whole money units.
MarketPrices == {PriceDen, 2 * PriceDen}

\* The fills and orders tried: every quantity, price and side on the traded
\* symbol, a whole share of a second symbol, and one side that is neither
\* buy nor sell.
FillInputs ==
    {<<"AAPL", q, p, s>> : q \in QtyValues, p \in MarketPrices,
                           s \in {"buy", "sell"}}
    \cup {<<"MSFT", QtyUnit, PriceDen, s>> : s \in {"buy", "sell"}}
    \cup {<<"AAPL", QtyUnit, PriceDen, s>> : s \in {"SELL", "hold"}}

OrderInputs ==
    {<<"AAPL", q, p, s>> : q \in QtyValues, p \in MarketPrices,
                           s \in {"buy", "sell"}}
    \cup {<<"MSFT", QtyUnit, PriceDen, s>> : s \in {"buy", "sell"}}
    \cup {<<"AAPL", QtyUnit, 0, s>> : s \in {"buy", "sell"}}
    \cup {<<"AAPL", QtyUnit, PriceDen, "hold">>}

ResetInputs == {None} \cup {Some(x) : x \in CashValues}

\* What a strategy hands to the engine: no signal, or a Signal's action.
SignalInputs == {None, Some("buy"), Some("sell"), Some("hold"), Some("BUY")}

NoCall == [op |-> "init", symbol |-> "", quantity |-> 0, price |-> 0,
           side |-> "", arg |-> None, outcome |-> "ok", order |-> None]

---------------------------------------------------------------------------
(* States after construction *)

Constructed(cashes, slippages, commissions, risks) ==
    /\ starting_cash \in cashes
    /\ cash = starting_cash
    /\ positions = EmptyPositions
    /\ trade_history = << >>
    /\ slippage_bps \in slippages
    /\ commission \in commissions
    /\ \E r \in risks :
          config = [symbol |-> "AAPL", cash |-> starting_cash,
                    risk_per_trade |-> r[1], max_position_pct |-> r[2]]
    /\ last = NoCall
    /\ ledger_log = [EmptyLog EXCEPT !.base = starting_cash]
    /\ baseline = starting_cash
    /\ steps = 0

\* No backtest is running.
BtIdle == [pc |-> "idle", idx |-> 0, runs |-> 0, signals |-> << >>,
           held |-> << >>]

\* run_forever has not been called.
LoopOff == [pc |-> "off", iterations |-> 0, logged |-> 0]

\* TradingScheduler.__init__, autotrader/agents/scheduler.py lines 17-22, on
\* the empty default scheduler of the schedule library.  `thread` is the
\* place of self._thread in `threads`, 0 for None; `main` is where the
\* caller of stop() stands; `phase` and `day` are the time of day.
SchedulerOff ==
    [running |-> FALSE, stop_event |-> FALSE, thread |-> 0, threads |-> << >>,
     jobs |-> {}, due |-> {}, main |-> "idle", market_hours_only |-> FALSE,
     phase |-> "before_open", day |-> 1]

\* No strategy object is looked at.
NoStrategy == [kind |-> "none"]

\* No generate_signal call has been made.
NoSignalCall == [op |-> "init"]

\* No backtest, no strategy call, no clock reading.
Quiet ==
    /\ candles = << >>
    /\ bt = BtIdle
    /\ equity_curve = << >>
    /\ results = None
    /\ earlier = None
    /\ strategy = NoStrategy
    /\ clock = 0
    /\ call = NoSignalCall
    /\ oracle = << >>
    /\ emitted = << >>
    /\ loop = LoopOff
    /\ sched = SchedulerOff

\* PaperBroker(starting_cash, slippage_bps, commission) and the ledger it owns.
Init ==
    /\ Constructed({8 * MoneyDen}, SlippageValues, CommissionValues,
                   {<<<<1, 4>>, <<1, 2>>>>})
    /\ Quiet

\* build_bot(config): the venue and an engine on top of it.
InitEngine ==
    /\ Constructed(CashValues, SlippageValues, CommissionValues, RiskValues)
    /\ Quiet

---------------------------------------------------------------------------
(* Operations *)

\* portfolio.update_on_fill(symbol, quantity, fill_price, side, commission)
\* called on the ledger directly, with the venue's commission.
UpdateOnFill(symbol, quantity, fill_price, side) ==
    /\ steps < MaxSteps
    /\ LET r == UpdateOnFillResult(cash, positions, symbol, quantity,
                                   fill_price, side, commission)
       IN  /\ cash' = r.cash
           /\ positions' = r.positions
           /\ ledger_log' = Logged(ledger_log, r.outcome, side, quantity,
                                   fill_price, commission)
           /\ last' = [NoCall EXCEPT !.op = "update_on_fill",
                          !.symbol = symbol, !.quantity = quantity,
                          !.price = fill_price, !.side = side,
                          !.outcome = r.outcome]
    /\ steps' = steps + 1
    /\ UNCHANGED <<starting_cash, trade_history, slippage_bps, commission,
                   config, baseline>>
    /\ UNCHANGED replay

\* portfolio.reset(cash)
PortfolioReset(c) ==
    /\ steps < MaxSteps
    /\ cash' = ResetCash(starting_cash, c)
    /\ positions' = EmptyPositions
    /\ starting_cash' = ResetStartingCash(starting_cash, c)
    /\ ledger_log' = [EmptyLog EXCEPT !.base = cash']
    /\ baseline' = IF c = None THEN baseline ELSE c[1]
    /\ last' = [NoCall EXCEPT !.op = "portfolio.reset", !.arg = c]
    /\ steps' = steps + 1
    /\ UNCHANGED <<trade_history, slippage_bps, commission, config>>
    /\ UNCHANGED replay

\* broker.submit_order(order, market_price)
SubmitOrder(symbol, quantity, market_price, side) ==
    /\ steps < MaxSteps
    /\ LET order == Order(symbol, quantity, side)
           r == SubmitOrderResult(cash, positions, trade_history,
                                  slippage_bps, commission, order, market_price)
       IN  /\ cash' = r.cash
           /\ positions' = r.positions
           /\ trade_history' = r.trade_history
           /\ ledger_log' =
                 Logged(ledger_log, r.outcome, side, quantity,
                        FillPrice(side, market_price, slippage_bps), commission)
           /\ last' = [NoCall EXCEPT !.op = "submit_order",
                          !.symbol = symbol, !.quantity = quantity,
                          !.price = market_price, !.side = side,
                          !.outcome = r.outcome, !.order = Some(order)]
    /\ steps' = steps + 1
    /\ UNCHANGED <<starting_cash, slippage_bps, commission, config, baseline>>
    /\ UNCHANGED replay

\* broker.reset(starting_cash): trade_history.clear(), portfolio.reset(...)
BrokerReset(c) ==
    /\ steps < MaxSteps
    /\ trade_history' = << >>
    /\ cash' = ResetCash(starting_cash, c)
    /\ positions' = EmptyPositions
    /\ starting_cash' = ResetStartingCash(starting_cash, c)
    /\ ledger_log' = [EmptyLog EXCEPT !.base = cash']
    /\ baseline' = IF c = None THEN baseline ELSE c[1]
    /\ last' = [NoCall EXCEPT !.op = "broker.reset", !.arg = c]
    /\ steps' = steps + 1
    /\ UNCHANGED <<slippage_bps, commission, config>>
    /\ UNCHANGED replay

\* bot.run_once() when the data provider returns no candles: no trade.
RunOnceNoData ==
    /\ steps < MaxIterations
    /\ last' = [NoCall EXCEPT !.op = "run_once", !.outcome = "none"]
    /\ steps' = steps + 1
    /\ UNCHANGED <<cash, starting_cash, positions, trade_history,
                   slippage_bps, commission, config, ledger_log, baseline>>
    /\ UNCHANGED replay

\* bot.run_once() on candles whose last close is `price`, the strategy
\* answering `signal`: the signal is sized into an order and the order is
\* submitted at `price`.
RunOnce(signal, price) ==
    /\ steps < MaxIterations
    /\ LET order == IF signal = None THEN None
                    ELSE CreateOrder(cash, positions, config, signal[1],
                                     config.symbol, price)
       IN  IF order = None
           THEN /\ last' = [NoCall EXCEPT !.op = "run_once", !.price = price,
                               !.side = IF signal = None THEN "" ELSE signal[1],
                               !.outcome = "none"]
                /\ UNCHANGED <<cash, positions, trade_history, ledger_log>>
           ELSE LET r == SubmitOrderResult(cash, positions, trade_history,
                                           slippage_bps, commission,
                                           order[1], price)
                IN  /\ cash' = r.cash
                    /\ positions' = r.positions
                    /\ trade_history' = r.trade_history
                    /\ ledger_log' =
                          Logged(ledger_log, r.outcome, order[1].side,
                                 order[1].quantity,
                                 FillPrice(order[1].side, price, slippage_bps),
                                 commission)
                    /\ last' = [NoCall EXCEPT !.op = "run_once",
                                   !.symbol = order[1].symbol,
                                   !.quantity = order[1].quantity,
                                   !.price = price, !.side = signal[1],
                                   !.outcome = IF r.outcome = "ok" THEN "trade"
                                               ELSE r.outcome,
                                   !.order = order]
    /\ steps' = steps + 1
    /\ UNCHANGED <<starting_cash, slippage_bps, commission, config, baseline>>
    /\ UNCHANGED replay

---------------------------------------------------------------------------
(* Specifications *)

LedgerCalls ==
    \/ \E i \in FillInputs : UpdateOnFill(i[1], i[2], i[3], i[4])
    \/ \E c \in ResetInputs : PortfolioReset(c)

VenueCalls ==
    \/ \E i \in OrderInputs : SubmitOrder(i[1], i[2], i[3], i[4])
    \/ \E c \in ResetInputs : BrokerReset(c)

EngineCalls ==
    \/ RunOnceNoData
    \/ \E signal \in SignalInputs, price \in MarketPrices : RunOnce(signal, price)

\* Any use of the ledger's and the venue's interface.
Next == LedgerCalls \/ VenueCalls

Spec == Init /\ [][Next]_vars

\* The venue used through its own interface only.
SpecVenue == Init /\ [][VenueCalls]_vars

\* The ledger and the venue driven by the engine only.
SpecEngine == InitEngine /\ [][EngineCalls]_vars

---------------------------------------------------------------------------
(* Sanity of the fixed-point scales *)

\* Every fill price of the model is exact: no quotient of FillPrice is
\* rounded.
ExactFills ==
    \A p \in MarketPrices, bps \in SlippageValues :
        /\ (p * (10000 + bps)) % 10000 = 0
        /\ (p * 10000) % (10000 + bps) = 0

---------------------------------------------------------------------------
(* Properties *)

\* The (symbol, price) map the engine values the ledger with.
PriceMap(p) == config.symbol :> p

\* What a trade counts for: its net value when it is a trade of the side
\* <<"net", side>>, its signed quantity when it is a trade of the symbol
\* <<"quantity", symbol>>.
Measure(t, what) ==
    IF what[1] = "net"
    THEN IF t.order.side = what[2] THEN net_value(t) ELSE 0
    ELSE IF t.order.symbol # what[2] THEN 0
         ELSE IF t.order.side = "buy" THEN t.order.quantity
         ELSE 0 - t.order.quantity

\* Sum of a measure over the trades i.. of a history.
RECURSIVE SumOver(_, _, _)
SumOver(history, i, what) ==
    IF i > Len(history) THEN 0
    ELSE Measure(history[i], what) + SumOver(history, i + 1, what)

\* C1: cash conservation.  Cash equals the cash at the start of the sequence
\* of fills (the construction or the last reset) minus quantity x fill_price
\* + commission of every successful buy plus quantity x fill_price -
\* commission of every successful sell; a call that raises logs nothing and
\* so must leave cash alone.
C1_CashConservation ==
    cash = ledger_log.base - ledger_log.buys + ledger_log.sells

\* C1 witness: buys and sells have been applied with a commission, and the
\* last call raised.
C1_Witness ==
    /\ ledger_log.buys > 0
    /\ ledger_log.sells > 0
    /\ commission > 0
    /\ last.op = "update_on_fill"
    /\ last.outcome = "RuntimeError"

\* C2: a sell of more than the position plus the tolerance (also of a symbol
\* that has no position) raises, and cash and the positions mapping are what
\* they were before the call.
C2_OverSellLeavesLedgerUnchanged ==
    [][ ( /\ last'.op = "update_on_fill"
          /\ Lower(last'.side) = "sell"
          /\ last'.quantity > position_size(positions, last'.symbol) + Tol )
        => ( /\ last'.outcome = "RuntimeError"
             /\ cash' = cash
             /\ positions' = positions ) ]_vars

\* C3: the positions mapping never holds a closed position: every key
\* present has a quantity above the tolerance.
C3_NoClosedPosition ==
    \A s \in DOMAIN positions : positions[s].quantity > Tol

\* C4: sizing never exceeds the caps.  For a buy signal at price p, with E
\* the equity and C the cash before the call, the order quantity q is the
\* whole number of shares floor(min(risk_per_trade x C, max(0,
\* max_position_pct x E - position value)) / p); no order is produced when
\* that is <= 0; and an order produced has (position + q) x p <=
\* max_position_pct x E and q x p <= risk_per_trade x C.
C4_SizingWithinCaps ==
    [][ ( last'.op = "run_once" /\ Lower(last'.side) = "buy" )
        => LET p == last'.price
               rn == config.risk_per_trade[1]
               rd == config.risk_per_trade[2]
               mn == config.max_position_pct[1]
               md == config.max_position_pct[2]
               held == position_size(positions, config.symbol)
               E == cash + held * p
               \* the spendable amount, times rd * md
               spendable == Min(cash * rn * md,
                                Max(0, E * mn - held * p * md) * rd)
               \* one share at p, times rd * md
               share == QtyUnit * p * rd * md
           IN  IF last'.order = None
               THEN spendable < share
               ELSE LET o == last'.order[1]
                        q == o.quantity
                    IN  /\ o.side = "buy" /\ o.symbol = config.symbol
                        /\ q > 0 /\ q % QtyUnit = 0
                        /\ q * p * rd * md <= spendable
                        /\ spendable < (q + QtyUnit) * p * rd * md
                        /\ (held + q) * p * md <= mn * E
                        /\ q * p * rd <= rn * cash ]_vars

\* C4 witness: a buy order was sized and filled on top of an open position.
C4_Witness ==
    /\ last.op = "run_once"
    /\ last.side = "buy"
    /\ last.outcome = "trade"
    /\ position_size(positions, config.symbol) > last.quantity

\* C5: under engine-driven trading (cash >= 0 at the start, 0 <
\* risk_per_trade <= 1, 0 < max_position_pct <= 1, slippage_bps >= 0,
\* commission >= 0, positive prices) cash is never negative.
C5_CashNeverNegative == cash >= 0

\* C6: submit_order is all-or-nothing and the ledger reconciles with the
\* trade history: a call that raises adds no Trade and changes no ledger
\* state; the history holds one Trade per fill applied since the last reset;
\* cash is the baseline minus the net value of the buy Trades plus the net
\* value of the sell Trades; and the position of every symbol is its bought
\* minus its sold quantity.
C6_VenueReconciles ==
    [][ /\ ( last'.op = "submit_order" /\ last'.outcome # "ok" )
           => ( /\ cash' = cash
                /\ positions' = positions
                /\ trade_history' = trade_history )
        /\ Len(trade_history') = ledger_log'.n
        /\ cash' = starting_cash' - SumOver(trade_history', 1, <<"net", "buy">>)
                                  + SumOver(trade_history', 1, <<"net", "sell">>)
        /\ \A s \in Symbols :
              position_size(positions', s)
                 = SumOver(trade_history', 1, <<"quantity", s>>)
      ]_vars

\* C7: a sell signal liquidates the whole position.  With no position there
\* is no order and nothing changes; otherwise the order is a sell of the
\* entire position, it is filled, and afterwards the symbol has no key in
\* the ledger and its position size is 0.
C7_SellLiquidates ==
    [][ ( last'.op = "run_once" /\ Lower(last'.side) = "sell" )
        => LET held == position_size(positions, config.symbol)
           IN  IF held <= 0
               THEN /\ last'.order = None
                    /\ last'.outcome = "none"
                    /\ UNCHANGED <<cash, positions, trade_history>>
               ELSE /\ last'.order = Some(Order(config.symbol, held, "sell"))
                    /\ last'.outcome = "trade"
                    /\ config.symbol \notin DOMAIN positions'
                    /\ position_size(positions', config.symbol) = 0 ]_vars

\* C7 witness: the engine sold a position of two shares or more.
C7_Witness ==
    /\ last.op = "run_once"
    /\ last.side = "sell"
    /\ last.outcome = "trade"
    /\ last.quantity >= 2 * QtyUnit
    /\ config.symbol \notin DOMAIN positions

\* C8 as stated: a filled buy is priced market_price x (1 + slippage_bps /
\* 10000), a filled sell market_price / (1 + slippage_bps / 10000), and the
\* fill price is strictly worse than the quoted price.
C8_SlippageStrictlyAdverse ==
    ( last.op = "submit_order" /\ last.outcome = "ok" )
    => LET t == trade_history[Len(trade_history)]
       IN  IF last.side = "buy"
           THEN /\ t.price * 10000 = last.price * (10000 + slippage_bps)
                /\ t.price > last.price
           ELSE /\ t.price * (10000 + slippage_bps) = last.price * 10000
                /\ t.price < last.price

\* C8 amended: the same prices; the fill price is never better than the
\* quoted price, strictly worse when slippage_bps > 0, and equal to it when
\* slippage_bps = 0.
C8_SlippageAdverse ==
    ( last.op = "submit_order" /\ last.outcome = "ok" )
    => LET t == trade_history[Len(trade_history)]
       IN  /\ t.order = last.order[1]
           /\ IF last.side = "buy"
              THEN /\ t.price * 10000 = last.price * (10000 + slippage_bps)
                   /\ t.price >= last.price
              ELSE /\ t.price * (10000 + slippage_bps) = last.price * 10000
                   /\ t.price <= last.price
           /\ (slippage_bps > 0) <=> (t.price # last.price)

\* C8 witness: a sell was filled below the quoted price.
C8_Witness ==
    /\ last.op = "submit_order"
    /\ last.outcome = "ok"
    /\ last.side = "sell"
    /\ slippage_bps > 0
    /\ trade_history[Len(trade_history)].price < last.price

\* C9: submit_order at a market price <= 0 raises the invalid-argument
\* error, and cash, positions and the trade history are what they were.
C9_BadPriceRejected ==
    [][ ( last'.op = "submit_order" /\ last'.price <= 0 )
        => ( /\ last'.outcome = "ValueError"
             /\ cash' = cash
             /\ positions' = positions
             /\ trade_history' = trade_history ) ]_vars

\* C9 witness: an order at a market price <= 0 was refused by a venue that
\* holds a position and a trade.
C9_Witness ==
    /\ last.op = "submit_order"
    /\ last.price <= 0
    /\ last.outcome = "ValueError"
    /\ trade_history # << >>
    /\ DOMAIN positions # {}

\* C10: the reset contract.  After a reset there are no positions and cash
\* is the baseline: the cash given to this reset, else the cash given to the
\* latest earlier reset that was given one, else the cash of construction.
\* The venue's reset also empties the trade history.  A reset() that
\* follows changes nothing (idempotence).
C10_ResetContract ==
    last.op \in {"portfolio.reset", "broker.reset"}
    => /\ DOMAIN positions = {}
       /\ cash = baseline
       /\ (last.arg # None => cash = last.arg[1])
       /\ (last.op = "broker.reset" => trade_history = << >>)
       /\ ResetCash(starting_cash, None) = cash
       /\ ResetStartingCash(starting_cash, None) = starting_cash

\* C10 witness: after a reset(c) and a trade, reset() restored the cash c,
\* which is not the cash of construction.
C10_Witness ==
    /\ last.op = "portfolio.reset"
    /\ last.arg = None
    /\ trade_history # << >>
    /\ cash # config.cash

---------------------------------------------------------------------------
(* Max drawdown: autotrader/engine.py, AutoTradingBot._calculate_max_drawdown *)

\* Longest equity curve handed to the drawdown calculation on its own.
MaxCurveLen == 5

\* The equities of those curves: the values of the documented example, a
\* wiped-out account and an overdrawn one.
EquityValues == {0 - 50, 0, 80, 90, 100, 120, 150}

\* The quotient n / d of two numbers, d # 0, as a fraction in lowest terms
\* with a positive denominator.
Quot(n, d) == IF d < 0 THEN Frac(0 - n, 0 - d) ELSE Frac(n, d)

\* x < y on such fractions.
Less(x, y) == x[1] * y[2] < y[1] * x[2]

\* A slip of lines 204-205: the peak stays at the first equity.
RunningPeakFirst(peak, equity) == peak

\* Lines 204-205: the peak after seeing the next equity.
RunningPeak(peak, equity) == IF equity > peak THEN equity ELSE peak

\* Lines 203-208: the loop from entry i on, with the peak and the
\* max_drawdown it has so far.  equity / peak raises when the peak is 0.
RECURSIVE DrawdownLoop(_, _, _, _)
DrawdownLoop(curve, i, peak, max_drawdown) ==
    IF i > Len(curve)
    THEN [outcome |-> "ok", max_drawdown |-> max_drawdown]
    ELSE
      LET equity == curve[i][2]
          new_peak == RunningPeak(peak, equity)
      IN  IF new_peak = 0
          THEN [outcome |-> "ZeroDivisionError", max_drawdown |-> <<0, 1>>]
          ELSE
            LET drawdown == Quot(equity - new_peak, new_peak)
            IN  DrawdownLoop(curve, i + 1, new_peak,
                             IF Less(drawdown, max_drawdown) THEN drawdown
                             ELSE max_drawdown)

\* _calculate_max_drawdown(equity_curve): 0.0 for an empty curve, else the
\* loop started with the first equity as the peak.
calculate_max_drawdown(curve) ==
    IF Len(curve) = 0
    THEN [outcome |-> "ok", max_drawdown |-> <<0, 1>>]
    ELSE DrawdownLoop(curve, 1, curve[1][2], <<0, 1>>)

\* The list of (timestamp, equity) pairs of the equities f[1], ..., f[n],
\* with the entry number as timestamp.
CurveOf(f, n) == [i \in 1..n |-> <<i, f[i]>>]

InitDrawdown ==
    /\ Constructed({8 * MoneyDen}, {0}, {0}, {<<<<1, 4>>, <<1, 2>>>>})
    /\ \E n \in 0..MaxCurveLen : \E f \in [1..n -> EquityValues] :
          equity_curve = CurveOf(f, n)
    /\ candles = << >>
    /\ bt = BtIdle
    /\ results = None
    /\ earlier = None
    /\ strategy = NoStrategy
    /\ clock = 0
    /\ call = NoSignalCall
    /\ oracle = << >>
    /\ emitted = << >>
    /\ loop = LoopOff
    /\ sched = SchedulerOff

\* AutoTradingBot._calculate_max_drawdown(equity_curve)
CalculateMaxDrawdown ==
    /\ results = None
    /\ results' = Some(calculate_max_drawdown(equity_curve))
    /\ UNCHANGED <<cash, starting_cash, positions, trade_history,
                   slippage_bps, commission, config, last, ledger_log,
                   baseline, steps, candles, bt, equity_curve, earlier,
                   strategy, clock, call, oracle, emitted>>
    /\ UNCHANGED <<loop, sched>>

\* The drawdown calculation applied to any list of equities.
SpecDrawdown == InitDrawdown /\ [][CalculateMaxDrawdown]_vars

\* The running peak of a curve up to its entry i.
PeakUpTo(curve, i) ==
    CHOOSE m \in {curve[j][2] : j \in 1..i} :
        \A j \in 1..i : curve[j][2] <= m

\* equity / running peak - 1 at entry i.
DrawdownAt(curve, i) ==
    Quot(curve[i][2] - PeakUpTo(curve, i), PeakUpTo(curve, i))

PeakNeverZero(curve) == \A i \in 1..Len(curve) : PeakUpTo(curve, i) # 0

NeverDeclines(curve) ==
    \A i \in 2..Len(curve) : curve[i][2] >= curve[i - 1][2]

\* The reference definition: the least drawdown over all entries, 0 for an
\* empty curve.
ReferenceDrawdown(curve) ==
    IF Len(curve) = 0 THEN <<0, 1>>
    ELSE LET S == {DrawdownAt(curve, i) : i \in 1..Len(curve)}
         IN  CHOOSE m \in S : \A x \in S : ~Less(x, m)

\* What the claim says of a result r for a curve.
DrawdownAsSpecified(curve, r) ==
    /\ r.outcome = "ok"
    /\ r.max_drawdown = ReferenceDrawdown(curve)
    /\ r.max_drawdown[1] <= 0
    /\ (Len(curve) = 0 \/ NeverDeclines(curve)) => r.max_drawdown = <<0, 1>>

---------------------------------------------------------------------------
(* Moving-average crossover: autotrader/strategies/moving_average.py *)

\* short_window and long_window of the strategies explored.
ShortWindow == 2

LongWindow == 3

\* minimum_confidence: the default 0.005 as a fraction.
MinimumConfidence == <<1, 200>>

\* MovingAverageCrossStrategy(symbol, short_window, long_window)
MovingAverageCrossStrategy(symbol, short_window, long_window) ==
    [kind |-> "ma", symbol |-> symbol, short_window |-> short_window,
     long_window |-> long_window, minimum_confidence |-> MinimumConfidence]

\* The sum of the w closes that end at bar n.
RECURSIVE SumCloses(_, _, _)
SumCloses(closes, n, w) ==
    IF w = 0 THEN 0 ELSE closes[n] + SumCloses(closes, n - 1, w - 1)

\* prices.rolling(w).mean() at bar n >= w, an exact fraction.
RollingMean(closes, n, w) == Frac(SumCloses(closes, n, w), w)

\* Line 59: abs(latest_short - latest_long) / latest_long, 0 when latest_long
\* is not positive.
Confidence(latest_short, latest_long) ==
    IF latest_long[1] > 0
    THEN Frac(Abs(latest_short[1] * latest_long[2]
                  - latest_long[1] * latest_short[2]) ,
              latest_short[2] * latest_long[1])
    ELSE <<0, 1>>

\* A slip of line 64: the averages of the bar before are not looked at.
CrossedUpNow(latest_short, latest_long, prev_short, prev_long) ==
    Less(latest_long, latest_short)

\* Another slip of line 64: prev_short < prev_long, equal averages on the
\* bar before are no crossing.
CrossedUpStrictly(latest_short, latest_long, prev_short, prev_long) ==
    Less(latest_long, latest_short) /\ Less(prev_short, prev_long)

\* Line 64
CrossedUp(latest_short, latest_long, prev_short, prev_long) ==
    Less(latest_long, latest_short) /\ ~Less(prev_long, prev_short)

\* Line 65
CrossedDown(latest_short, latest_long, prev_short, prev_long) ==
    Less(latest_short, latest_long) /\ ~Less(prev_short, prev_long)

\* A slip of line 62: the position is not looked at.
HasPositionNever(current_position) == FALSE

\* Line 62
HasPosition(current_position) == current_position > 0

\* Signal(symbol, action, timestamp, confidence)
Signal(symbol, action, timestamp, confidence) ==
    [symbol |-> symbol, action |-> action, timestamp |-> timestamp,
     confidence |-> confidence]

\* strategy.minimum_history of either strategy class.
minimum_history(strat) ==
    IF strat.kind = "ma" THEN strat.long_window + 1 ELSE strat.minimum_history

\* MovingAverageCrossStrategy.generate_signal(data, portfolio): None, or the
\* Signal.  The timestamp of a bar is its number.
MAGenerateSignal(strat, closes, pos) ==
    IF Len(closes) = 0 \/ Len(closes) < minimum_history(strat) THEN None
    ELSE
      LET n == Len(closes)
          latest_short == RollingMean(closes, n, strat.short_window)
          latest_long == RollingMean(closes, n, strat.long_window)
          prev_short == RollingMean(closes, n - 1, strat.short_window)
          prev_long == RollingMean(closes, n - 1, strat.long_window)
          confidence == Confidence(latest_short, latest_long)
          current_position == position_size(pos, strat.symbol)
          has_position == HasPosition(current_position)
          crossed_up == CrossedUp(latest_short, latest_long,
                                  prev_short, prev_long)
          crossed_down == CrossedDown(latest_short, latest_long,
                                      prev_short, prev_long)
      IN  IF crossed_up /\ ~has_position
             /\ ~Less(confidence, strat.minimum_confidence)
          THEN Some(Signal(strat.symbol, "buy", n, confidence))
          ELSE IF crossed_down /\ has_position
                  /\ ~Less(confidence, strat.minimum_confidence)
          THEN Some(Signal(strat.symbol, "sell", n, confidence))
          ELSE None

---------------------------------------------------------------------------
(* The engine driven by a strategy object *)

\* Engine iterations with a strategy object explored per behaviour.
MaxCalls == 2

\* The closes of the bars the data provider serves: whole money units, the
\* steps between them small and large against minimum_confidence.
Closes == {100 * PriceDen, 101 * PriceDen, 110 * PriceDen}

\* The cash of the accounts that trade at those prices.
ReplayCash == {1000 * MoneyDen}

\* run_once lines 58-67, backtest lines 108-110: the signal is sized into an
\* order and the order, if any, is submitted at `price`.  The strategy and
\* _create_order have looked the position up before that.
PlaceOrder(op, signal, price) ==
    \E order \in {IF signal = None THEN None
                   ELSE CreateOrder(cash, positions, config, signal[1].action,
                                    signal[1].symbol, price)} :
        IF order = None
        THEN /\ last' = [NoCall EXCEPT !.op = op, !.price = price,
                            !.side = IF signal = None THEN ""
                                     ELSE signal[1].action,
                            !.outcome = "none"]
             /\ positions' = PositionsAfterLookup(positions, config.symbol)
             /\ UNCHANGED <<cash, trade_history, ledger_log>>
        ELSE \E r \in {SubmitOrderResult(
                           cash, PositionsAfterLookup(positions, config.symbol),
                           trade_history, slippage_bps, commission,
                           order[1], price)} :
                 /\ cash' = r.cash
                 /\ positions' = r.positions
                 /\ trade_history' = r.trade_history
                 /\ ledger_log' =
                       Logged(ledger_log, r.outcome, order[1].side,
                              order[1].quantity,
                              FillPrice(order[1].side, price, slippage_bps),
                              commission)
                 /\ last' = [NoCall EXCEPT !.op = op,
                                !.symbol = order[1].symbol,
                                !.quantity = order[1].quantity,
                                !.price = price, !.side = signal[1].action,
                                !.outcome = IF r.outcome = "ok" THEN "trade"
                                            ELSE r.outcome,
                                !.order = order]

\* bot.run_once() with the moving-average strategy, the data provider
\* returning the closes `history`.
RunOnceMA(history) ==
    /\ steps < MaxCalls
    /\ strategy.kind = "ma"
    /\ candles' = history
    /\ IF Len(history) = 0
       THEN /\ last' = [NoCall EXCEPT !.op = "run_once", !.outcome = "none"]
            /\ call' = [op |-> "none"]
            /\ UNCHANGED <<cash, positions, trade_history, ledger_log>>
       ELSE \E signal \in {MAGenerateSignal(strategy, history, positions)} :
                /\ call' = [op |-> "generate_signal", data |-> history,
                            held |-> position_size(positions, strategy.symbol),
                            signal |-> signal]
                /\ PlaceOrder("run_once", signal, history[Len(history)])
    /\ steps' = steps + 1
    /\ UNCHANGED <<starting_cash, slippage_bps, commission, config, baseline,
                   bt, equity_curve, results, earlier, strategy, clock,
                   oracle, emitted>>
    /\ UNCHANGED <<loop, sched>>

\* build_bot(config) with the moving-average strategy.
InitMA ==
    /\ Constructed(ReplayCash, {2500}, {MoneyDen}, RiskValues)
    /\ strategy = MovingAverageCrossStrategy("AAPL", ShortWindow, LongWindow)
    /\ candles = << >>
    /\ bt = BtIdle
    /\ equity_curve = << >>
    /\ results = None
    /\ earlier = None
    /\ clock = 0
    /\ call = NoSignalCall
    /\ oracle = << >>
    /\ emitted = << >>
    /\ loop = LoopOff
    /\ sched = SchedulerOff

\* The histories served to run_once: none, one bar too few, just enough.
MACalls ==
    \E n \in {0, LongWindow, LongWindow + 1} :
        \E history \in [1..n -> Closes] : RunOnceMA(history)

\* The engine run on the moving-average strategy.
SpecMA == InitMA /\ [][MACalls]_vars

\* C14: the moving-average emission rule.  A generate_signal call on at
\* least long_window + 1 bars returns a buy signal iff short(now) > long(now)
\* and short(prev) <= long(prev) and the position is flat and confidence >=
\* the threshold; a sell signal iff short(now) < long(now) and short(prev) >=
\* long(prev) and a position is open and confidence >= the threshold; and
\* nothing otherwise, with confidence = |short(now) - long(now)| / long(now).
C14_EmissionRule ==
    ( call.op = "generate_signal" /\ strategy.kind = "ma"
      /\ Len(call.data) >= strategy.long_window + 1 )
    => LET n == Len(call.data)
           short_now == RollingMean(call.data, n, strategy.short_window)
           long_now == RollingMean(call.data, n, strategy.long_window)
           short_prev == RollingMean(call.data, n - 1, strategy.short_window)
           long_prev == RollingMean(call.data, n - 1, strategy.long_window)
           confidence ==
               IF long_now[1] <= 0 THEN <<0, 1>>
               ELSE Quot(Abs(short_now[1] * long_now[2]
                             - long_now[1] * short_now[2]) * long_now[2],
                         short_now[2] * long_now[2] * long_now[1])
           confident == ~Less(confidence, strategy.minimum_confidence)
           buy == /\ Less(long_now, short_now)
                  /\ (Less(short_prev, long_prev) \/ short_prev = long_prev)
                  /\ call.held = 0
                  /\ confident
           sell == /\ Less(short_now, long_now)
                   /\ (Less(long_prev, short_prev) \/ short_prev = long_prev)
                   /\ call.held > 0
                   /\ confident
       IN  /\ buy <=> ( call.signal # None /\ call.signal[1].action = "buy" )
           /\ sell <=> ( call.signal # None /\ call.signal[1].action = "sell" )
           /\ ~buy /\ ~sell => call.signal = None
           /\ call.signal # None => call.signal[1].confidence = confidence

\* C14 witness: a call on enough bars, made while a position is open, has
\* returned a sell signal.
C14_Witness ==
    /\ call.op = "generate_signal"
    /\ strategy.kind = "ma"
    /\ call.held > 0
    /\ call.signal # None
    /\ call.signal[1].action = "sell"

---------------------------------------------------------------------------
(* The decision oracle's adaptor: autotrader/agents/llm_client.py *)

\* Confidences are whole percents: 0.0 is 0 and 1.0 is FullConfidence.
FullConfidence == 100

\* str.upper() on the action strings an oracle answers with.
Upper(s) ==
    CASE s = "buy" -> "BUY"
      [] s = "sell" -> "SELL"
      [] s = "Sell" -> "SELL"
      [] s = "hold" -> "HOLD"
      [] s = "wait" -> "WAIT"
      [] OTHER -> s

\* Line 116
RequiredFields == {"action", "confidence", "rationale"}

\* A slip of line 129: only the upper end of the range is tested.
InvalidConfidenceAbove(confidence) == confidence > FullConfidence

\* Line 129: not 0.0 <= confidence <= 1.0
InvalidConfidence(confidence) ==
    ~(0 <= confidence /\ confidence <= FullConfidence)

\* LLMClient.get_trading_decision: what it returns for the oracle's
\* response.  A response is an API error, text that is no JSON, JSON that is
\* no object, or a JSON object: the fields it lacks, its action (a string or
\* another JSON value) and its confidence (a number, a string that float()
\* reads as that number, a string float() raises on, or NaN).  Every
\* exception raised on the way is caught at line 146.
get_trading_decision(response) ==
    IF response.kind # "json" THEN [outcome |-> "none"]
    ELSE IF response.missing \cap RequiredFields # {}
    THEN [outcome |-> "none"]
    ELSE IF response.action_as # "string" THEN [outcome |-> "none"]
    ELSE IF Upper(response.action) \notin {"BUY", "SELL", "HOLD"}
    THEN [outcome |-> "none"]
    ELSE IF response.confidence_as = "text" THEN [outcome |-> "none"]
    ELSE IF response.confidence_as = "nan" THEN [outcome |-> "none"]
    ELSE IF InvalidConfidence(response.confidence)
    THEN [outcome |-> "none"]
    ELSE [outcome |-> "ok", action |-> Upper(response.action),
          confidence |-> response.confidence,
          risk_level |-> response.risk_level]

---------------------------------------------------------------------------
(* Market analysis: autotrader/agents/market_analyzer.py, without TA-Lib *)

\* Lines 207-211: the RSI from the average gain and the average loss of the
\* last 14 changes, 100 - 100 / (1 + avg_gain / avg_loss); no RSI when there
\* were fewer than 15 closes (deltas = None) or no loss.
Rsi(deltas) ==
    IF deltas = None THEN None
    ELSE LET avg_gain == deltas[1]
             avg_loss == deltas[2]
         IN  IF avg_loss > 0
             THEN Some(Frac(100 * avg_gain, avg_gain + avg_loss))
             ELSE None

\* _get_portfolio_context: the position seen at current_price, which is 0.0
\* when the price cannot be fetched.
get_portfolio_context(c, pos, symbol, current_price) ==
    LET size == position_size(pos, symbol)
        position_value == size * current_price
        equity == total_equity(c, pos, symbol :> current_price)
    IN  [position_size |-> size, position_value |-> position_value,
         cash |-> c, total_equity |-> equity,
         position_pct |-> IF equity > 0
                          THEN Frac(position_value * 100, equity)
                          ELSE <<0, 1>>]

\* MarketAnalyzer.analyze_market: None when the provider raises or has no
\* candles, else the analysis.  `market` is what the provider and the
\* statistics of its candles amount to: the gains and losses behind the RSI,
\* the volatility tag ("" when there were fewer than 20 closes) and the
\* price fetched for the portfolio context.
analyze_market(market, c, pos, symbol) ==
    IF market.kind # "candles" THEN [outcome |-> "none"]
    ELSE [outcome |-> "ok",
          has_context |-> TRUE,
          technical_indicators |-> [rsi |-> Rsi(market.deltas)],
          portfolio_context |->
              get_portfolio_context(c, pos, symbol, market.current_price),
          market_conditions |-> [volatility_level |-> market.volatility_level]]

---------------------------------------------------------------------------
(* LLM agent strategy: autotrader/strategies/llm_agent.py *)

\* Line 53
LLMMinimumHistory == 30

\* Lines 164 and 179: the confidence asked of a buy in a volatile market and
\* of a high-risk trade, in percent.
CautiousConfidence == 80

\* Line 155: the largest share of equity, in percent, a position may have
\* for a buy to pass.
MaxPositionPct == 80

\* Line 189
RsiOverbought == 70

\* Line 192
RsiOversold == 30

\* LLMAgentStrategy(symbol, llm_client, market_analyzer, min_confidence,
\* enable_risk_filter) with min_decision_interval_minutes set as
\* LLMAutoTradingBot does.
LLMAgentStrategy(symbol, min_confidence, enable_risk_filter, interval) ==
    [kind |-> "llm", symbol |-> symbol, min_confidence |-> min_confidence,
     enable_risk_filter |-> enable_risk_filter,
     last_decision |-> None, last_decision_time |-> None,
     min_decision_interval_minutes |-> interval,
     minimum_history |-> LLMMinimumHistory]

\* A slip of line 73: only a call in the very minute of the last decision is
\* too soon.
TooSoonSameMinute(now, last_decision_time, interval) ==
    /\ last_decision_time # None
    /\ now - last_decision_time[1] < 1

\* Lines 72-73, in minutes.
TooSoon(now, last_decision_time, interval) ==
    /\ last_decision_time # None
    /\ now - last_decision_time[1] < interval

\* A slip of line 96: no confidence is below the minimum.
BelowMinimumNever(confidence, min_confidence) == FALSE

\* Line 96
BelowMinimum(confidence, min_confidence) == confidence < min_confidence

\* A slip of line 155: no position is too large.
PositionTooLargeNever(position_pct) == FALSE

\* Line 155
PositionTooLarge(position_pct) == Less(<<MaxPositionPct, 1>>, position_pct)

\* Lines 187-194: the RSI check vetoes.  `if rsi:` skips the check for a
\* missing RSI and for an RSI of 0.0.
RsiVeto(action, rsi) ==
    IF rsi = None \/ rsi[1] = <<0, 1>> THEN FALSE
    ELSE IF action = "BUY" /\ Less(<<RsiOverbought, 1>>, rsi[1]) THEN TRUE
    ELSE IF action = "SELL" /\ Less(rsi[1], <<RsiOversold, 1>>) THEN TRUE
    ELSE FALSE

\* LLMAgentStrategy._risk_filter: TRUE when the decision passes.  An analysis
\* without a portfolio context makes lines 154 and 170 raise KeyError, and
\* the handler of lines 198-201 answers False.
risk_filter(decision, analysis) ==
    IF decision.action = "BUY" /\ ~analysis.has_context THEN FALSE
    ELSE IF decision.action = "BUY"
            /\ PositionTooLarge(analysis.portfolio_context.position_pct)
    THEN FALSE
    ELSE IF decision.action = "BUY"
            /\ analysis.market_conditions.volatility_level = "HIGH"
            /\ decision.confidence < CautiousConfidence
    THEN FALSE
    ELSE IF decision.action = "SELL" /\ ~analysis.has_context THEN FALSE
    ELSE IF decision.action = "SELL"
            /\ analysis.portfolio_context.position_size <= 0
    THEN FALSE
    ELSE IF decision.risk_level = "HIGH"
            /\ decision.confidence < CautiousConfidence
    THEN FALSE
    ELSE ~RsiVeto(decision.action, analysis.technical_indicators.rsi)


\* A slip of lines 131-133: the exception leaves generate_signal.
OnExceptionRaise(strat) ==
    [outcome |-> "raise", signal |-> None, strategy |-> strat,
     stage |-> "error"]

\* Lines 131-133: an exception raised inside generate_signal is logged and
\* None is returned.
OnException(strat) ==
    [outcome |-> "ok", signal |-> None, strategy |-> strat, stage |-> "error"]

\* A slip of lines 75-111: a call that returns None disarms the throttle.
NoSignalDisarms(strat, stage) ==
    [outcome |-> "ok", signal |-> None,
     strategy |-> [strat EXCEPT !.last_decision_time = None],
     stage |-> stage]

\* generate_signal returns None at the named stage.
NoSignal(strat, stage) ==
    [outcome |-> "ok", signal |-> None, strategy |-> strat, stage |-> stage]

\* LLMAgentStrategy.generate_signal at the clock reading `now`, the analyzer
\* answering `analysis` and the oracle's adaptor `decision` (each an answer,
\* nothing, or an exception): what is returned and the strategy left behind.
LLMGenerateSignal(strat, now, analysis, decision) ==
    IF TooSoon(now, strat.last_decision_time,
               strat.min_decision_interval_minutes)
    THEN NoSignal(strat, "throttle")
    ELSE IF analysis.outcome = "raise" THEN OnException(strat)
    ELSE IF analysis.outcome = "none" THEN NoSignal(strat, "analysis")
    ELSE IF decision.outcome = "raise" THEN OnException(strat)
    ELSE IF decision.outcome = "none" THEN NoSignal(strat, "decision")
    ELSE IF BelowMinimum(decision.confidence, strat.min_confidence)
    THEN NoSignal(strat, "confidence")
    ELSE IF strat.enable_risk_filter /\ ~risk_filter(decision, analysis)
    THEN NoSignal(strat, "risk_filter")
    ELSE IF decision.action = "HOLD" THEN NoSignal(strat, "hold")
    ELSE [outcome |-> "ok",
          signal |-> Some(Signal(strat.symbol, Lower(decision.action), now,
                                 decision.confidence)),
          strategy |-> [strat EXCEPT !.last_decision = Some(decision.action),
                                     !.last_decision_time = Some(now)],
          stage |-> "signal"]

\* A slip of lines 70-82: the market is analyzed before the throttle is
\* looked at.
CollaboratorCallsAnalysisFirst(strat, now, analysis, decision) ==
    IF TooSoon(now, strat.last_decision_time,
               strat.min_decision_interval_minutes)
    THEN <<"analyze_market">>
    ELSE IF analysis.outcome # "ok" THEN <<"analyze_market">>
    ELSE IF decision.outcome # "ok" \/ BelowMinimum(decision.confidence,
                                                    strat.min_confidence)
                                  \/ ~strat.enable_risk_filter
    THEN <<"analyze_market", "get_trading_decision">>
    ELSE <<"analyze_market", "get_trading_decision", "_risk_filter">>

\* The calls generate_signal makes on its collaborators, in the order of
\* lines 70-105: none when throttled (72-75); analyze_market (78); after an
\* analysis that is not empty, get_trading_decision (89); after a decision
\* that reaches min_confidence, _risk_filter if it is enabled (103).
CollaboratorCalls(strat, now, analysis, decision) ==
    IF TooSoon(now, strat.last_decision_time,
               strat.min_decision_interval_minutes)
    THEN << >>
    ELSE IF analysis.outcome # "ok" THEN <<"analyze_market">>
    ELSE IF decision.outcome # "ok" \/ BelowMinimum(decision.confidence,
                                                    strat.min_confidence)
                                  \/ ~strat.enable_risk_filter
    THEN <<"analyze_market", "get_trading_decision">>
    ELSE <<"analyze_market", "get_trading_decision", "_risk_filter">>

\* LLMAgentStrategy.update_parameters
update_parameters(strat, min_confidence, enable_risk_filter, interval) ==
    [strat EXCEPT
        !.min_confidence =
            IF min_confidence = None THEN @ ELSE min_confidence[1],
        !.enable_risk_filter =
            IF enable_risk_filter = None THEN @ ELSE enable_risk_filter[1],
        !.min_decision_interval_minutes =
            IF interval = None THEN @ ELSE interval[1]]

\* What the analyzer handed to the strategy answers: MarketAnalyzer on the
\* provider's candles, or a stand-in that raises or that answers without a
\* portfolio context.
AnalyzerAnswer(market, c, pos, symbol) ==
    IF market.kind = "raises" THEN [outcome |-> "raise"]
    ELSE IF market.kind = "no_context"
    THEN [outcome |-> "ok", has_context |-> FALSE,
          technical_indicators |-> [rsi |-> Rsi(market.deltas)],
          market_conditions |-> [volatility_level |-> market.volatility_level]]
    ELSE analyze_market(market, c, pos, symbol)

\* What the client handed to the strategy answers: LLMClient on the oracle's
\* response, or a stand-in that raises.
ClientAnswer(response) ==
    IF response.kind = "raises" THEN [outcome |-> "raise"]
    ELSE get_trading_decision(response)

---------------------------------------------------------------------------
(* The engine driven by the LLM agent strategy *)

\* config.llm_min_confidence, in percent.
DefaultMinConfidence == 60

\* config.llm_min_decision_interval_minutes
DefaultInterval == 30

\* The last close of the candles the provider serves to the LLM engine.
LLMPrice == 100 * PriceDen

\* What the provider's candles amount to for the analyzer.
Market(kind, deltas, volatility_level, current_price) ==
    [kind |-> kind, deltas |-> deltas, volatility_level |-> volatility_level,
     current_price |-> current_price]

\* The oracle's response: a JSON object with every required field, a string
\* for its action and a number for its confidence.
Json(action, confidence, risk_level) ==
    [kind |-> "json", missing |-> {}, action |-> action,
     action_as |-> "string", confidence |-> confidence,
     confidence_as |-> "number", risk_level |-> risk_level]

\* <<average gain, average loss>> of the last 14 changes: an RSI of 0, 25,
\* 50 and 75, and no loss at all.
RsiDeltas == {<<0, 1>>, <<1, 3>>, <<1, 1>>, <<3, 1>>, <<3, 0>>}

CalmMarket == Market("candles", <<1, 1>>, "MEDIUM", LLMPrice)

\* Decisions to trade that pass the default confidence gate.
TradeResponses ==
    {Json(a, c, r) : a \in {"BUY", "SELL"}, c \in {70, 90}, r \in {"", "HIGH"}}

\* The other responses: low confidence, HOLD, a lower-case action (read as
\* BUY), an unknown action, a confidence out of range, a JSON object without
\* a required field, text that is no JSON, an API error, and a client that
\* raises.
OtherResponses ==
    {Json("BUY", 50, ""), Json("SELL", 50, "HIGH"), Json("HOLD", 90, ""),
     Json("buy", 90, ""), Json("WAIT", 90, ""), Json("BUY", 150, ""),
     [Json("BUY", 90, "") EXCEPT !.missing = {"rationale"}],
     [Json("BUY", 90, "") EXCEPT !.kind = "text"],
     [Json("BUY", 90, "") EXCEPT !.kind = "api_error"],
     [Json("BUY", 90, "") EXCEPT !.kind = "raises"]}

\* Markets that yield no usable analysis: an analyzer that raises, a
\* provider that raises, no candles, an analysis without portfolio context.
BrokenMarkets ==
    {[CalmMarket EXCEPT !.kind = k] :
        k \in {"raises", "provider_error", "empty", "no_context"}}

\* The <<market, response>> pairs a generate_signal call meets.
CallInputs ==
    {<<Market("candles", d, "MEDIUM", LLMPrice), r>> :
        d \in RsiDeltas, r \in TradeResponses}
    \cup {<<Market("candles", <<1, 1>>, "HIGH", LLMPrice), r>> :
        r \in TradeResponses}
    \cup {<<Market("candles", <<1, 1>>, "MEDIUM", 0), Json(a, 90, "")>> :
        a \in {"BUY", "SELL"}}
    \cup {<<CalmMarket, r>> : r \in OtherResponses}
    \cup {<<m, Json(a, 90, "")>> :
        m \in BrokenMarkets, a \in {"BUY", "SELL", "HOLD"}}

\* Minutes that pass between two calls.
ElapsedValues == {0, DefaultInterval}

\* bot.run_once() with the LLM agent strategy, `elapsed` minutes after the
\* call before: the provider returning no candles (fetched = None) or
\* candles with the last close fetched[1].
RunOnceLLM(elapsed, fetched, market, response) ==
    /\ steps < MaxCalls
    /\ strategy.kind = "llm"
    /\ clock' = clock + elapsed
    /\ IF fetched = None
       THEN /\ last' = [NoCall EXCEPT !.op = "run_once", !.outcome = "none"]
            /\ call' = [op |-> "none"]
            /\ UNCHANGED <<cash, positions, trade_history, ledger_log,
                           strategy, emitted>>
       ELSE \E analysis \in {AnalyzerAnswer(market, cash, positions,
                                            strategy.symbol)},
               decision \in {ClientAnswer(response)} :
            \E g \in {LLMGenerateSignal(strategy, clock', analysis,
                                        decision)} :
                /\ strategy' = g.strategy
                /\ emitted' = IF g.signal = None THEN emitted
                              ELSE Append(emitted, g.signal[1].timestamp)
                /\ call' = [op |-> "generate_signal", now |-> clock',
                            before |-> strategy,
                            held |-> position_size(positions, strategy.symbol),
                            market |-> market, response |-> response,
                            analysis |-> analysis, decision |-> decision,
                            outcome |-> g.outcome, signal |-> g.signal,
                            stage |-> g.stage,
                            calls |-> CollaboratorCalls(strategy, clock',
                                                        analysis, decision)]
                /\ IF g.outcome = "raise"
                   THEN /\ last' = [NoCall EXCEPT !.op = "run_once",
                                       !.outcome = "Exception"]
                        /\ UNCHANGED <<cash, positions, trade_history,
                                       ledger_log>>
                   ELSE PlaceOrder("run_once", g.signal, fetched[1])
    /\ steps' = steps + 1
    /\ UNCHANGED <<starting_cash, slippage_bps, commission, config, baseline,
                   candles, bt, equity_curve, results, earlier, oracle>>
    /\ UNCHANGED <<loop, sched>>

\* strategy.update_parameters(min_confidence, enable_risk_filter,
\* min_decision_interval_minutes)
UpdateParameters(min_confidence, enable_risk_filter, interval) ==
    /\ strategy.kind = "llm"
    /\ strategy' = update_parameters(strategy, min_confidence,
                                     enable_risk_filter, interval)
    /\ call' = [op |-> "update_parameters"]
    /\ UNCHANGED <<cash, starting_cash, positions, trade_history,
                   slippage_bps, commission, config, last, ledger_log,
                   baseline, steps, candles, bt, equity_curve, results,
                   earlier, clock, oracle, emitted>>
    /\ UNCHANGED <<loop, sched>>

\* The parameter changes tried, one parameter at a time.
ParameterInputs ==
    {<<Some(m), None, None>> : m \in {DefaultMinConfidence, CautiousConfidence}}
    \cup {<<None, Some(b), None>> : b \in BOOLEAN}
    \cup {<<None, None, Some(i)>> : i \in {DefaultInterval, 2 * DefaultInterval}}

\* LLMAutoTradingBot(config, data_provider, execution_client) with the
\* default LLM settings.
InitLLM ==
    /\ Constructed(ReplayCash, {2500}, {MoneyDen}, RiskValues)
    /\ strategy = LLMAgentStrategy("AAPL", DefaultMinConfidence, TRUE,
                                   DefaultInterval)
    /\ candles = << >>
    /\ bt = BtIdle
    /\ equity_curve = << >>
    /\ results = None
    /\ earlier = None
    /\ clock = 0
    /\ call = NoSignalCall
    /\ oracle = << >>
    /\ emitted = << >>
    /\ loop = LoopOff
    /\ sched = SchedulerOff

LLMCalls ==
    \/ \E elapsed \in ElapsedValues, i \in CallInputs :
          RunOnceLLM(elapsed, Some(LLMPrice), i[1], i[2])
    \/ \E elapsed \in ElapsedValues :
          RunOnceLLM(elapsed, None, CalmMarket, Json("HOLD", 90, ""))
    \/ \E p \in ParameterInputs : UpdateParameters(p[1], p[2], p[3])

\* The engine run on the LLM agent strategy.
SpecLLM == InitLLM /\ [][LLMCalls]_vars

---------------------------------------------------------------------------
(* Properties of the LLM agent strategy *)

\* The step is a generate_signal call of the LLM strategy.
SignalCall == call'.op = "generate_signal" /\ steps' = steps + 1

\* C16: throttle.  A generate_signal call made less than
\* min_decision_interval_minutes after the last signal the instance emitted
\* returns no signal, and a signal that is emitted comes at least that
\* interval after the one before it.
C16_Throttle ==
    [][ SignalCall =>
          LET since == call'.now - emitted[Len(emitted)]
              interval == strategy.min_decision_interval_minutes
          IN  /\ (emitted # << >> /\ since < interval)
                    => (call'.signal = None /\ emitted' = emitted)
              /\ (emitted # << >> /\ call'.signal # None)
                    => call'.signal[1].timestamp - emitted[Len(emitted)]
                          >= interval ]_vars

\* C16 witness: two signals have been emitted by the instance, the second
\* an interval after the first.
C16_Witness ==
    /\ Len(emitted) = 2
    /\ emitted[2] - emitted[1] >= strategy.min_decision_interval_minutes
    /\ call.op = "generate_signal"
    /\ call.signal # None

\* A call was throttled although time had passed since the last signal.
ThrottledLater ==
    /\ call.op = "generate_signal"
    /\ call.stage = "throttle"
    /\ emitted # << >>
    /\ call.now > emitted[Len(emitted)]

\* The call looked at a decision and an analysis with the risk filter on.
Filtered ==
    /\ call.op = "generate_signal"
    /\ call.before.enable_risk_filter
    /\ call.analysis.outcome = "ok"
    /\ call.decision.outcome = "ok"

\* C17: RSI veto.  With the risk filter enabled, a BUY decision yields no
\* signal whenever the analysis has an RSI above 70 and a SELL decision
\* yields no signal whenever it has an RSI below 30, whatever the RSI in
\* [0, 100] and whatever the other checks say.
C17_RsiVeto ==
    ( Filtered /\ call.analysis.technical_indicators.rsi # None )
    => LET rsi == call.analysis.technical_indicators.rsi[1]
       IN  /\ ( call.decision.action = "BUY" /\ Less(<<RsiOverbought, 1>>, rsi) )
                 => call.signal = None
           /\ ( call.decision.action = "SELL" /\ Less(rsi, <<RsiOversold, 1>>) )
                 => call.signal = None

\* C18: position, volatility and risk-level vetoes.  With the risk filter
\* enabled no signal is emitted for a BUY when the position value is more
\* than 80% of total equity, for a BUY when volatility is HIGH and
\* confidence is below 0.8, for a SELL when no position is held, or for
\* either side when risk_level is HIGH and confidence is below 0.8.
C18_RiskVetoes ==
    ( Filtered /\ call.analysis.has_context )
    => LET context == call.analysis.portfolio_context
           action == call.decision.action
           confidence == call.decision.confidence
       IN  /\ ( /\ action = "BUY"
                /\ context.total_equity > 0
                /\ context.position_value * 100
                      > MaxPositionPct * context.total_equity )
                 => call.signal = None
           /\ ( /\ action = "BUY"
                /\ call.analysis.market_conditions.volatility_level = "HIGH"
                /\ confidence < CautiousConfidence )
                 => call.signal = None
           /\ ( action = "SELL" /\ context.position_size <= 0 )
                 => call.signal = None
           /\ ( /\ action \in {"BUY", "SELL"}
                /\ call.decision.risk_level = "HIGH"
                /\ confidence < CautiousConfidence )
                 => call.signal = None

\* C18 witness: a confident, low-risk BUY in a calm market with a neutral
\* RSI was stopped by the risk filter because the position is more than 80%
\* of equity.
C18_Witness ==
    /\ Filtered
    /\ call.stage = "risk_filter"
    /\ call.decision.action = "BUY"
    /\ call.decision.confidence >= CautiousConfidence
    /\ call.decision.risk_level # "HIGH"
    /\ call.analysis.has_context
    /\ call.analysis.market_conditions.volatility_level # "HIGH"
    /\ ~RsiVeto("BUY", call.analysis.technical_indicators.rsi)
    /\ call.analysis.portfolio_context.position_value * 100
          > MaxPositionPct * call.analysis.portfolio_context.total_equity

\* C19: every Signal of the LLM strategy has action buy or sell and a
\* confidence of at least the configured minimum; a HOLD decision of the
\* oracle, or one with a confidence below the minimum, produces no signal.
C19_SignalsAreConfidentTrades ==
    call.op = "generate_signal"
    => /\ call.signal # None
            => /\ call.signal[1].action \in {"buy", "sell"}
               /\ call.signal[1].confidence >= call.before.min_confidence
       /\ ( /\ call.response.kind = "json"
            /\ call.response.missing = {}
            /\ \/ Upper(call.response.action) = "HOLD"
               \/ call.response.confidence < call.before.min_confidence )
            => call.signal = None

\* C19 witness: a sell signal has been emitted with the oracle's confidence,
\* which is at least the minimum.
C19_Witness ==
    /\ call.op = "generate_signal"
    /\ call.signal # None
    /\ call.signal[1].action = "sell"
    /\ call.signal[1].confidence = call.response.confidence
    /\ call.response.confidence < CautiousConfidence

\* The decision of the call errored: the analysis or the oracle call raised
\* or returned nothing, or the risk filter itself raised.
Errored ==
    \/ call.analysis.outcome \in {"raise", "none"}
    \/ call.decision.outcome \in {"raise", "none"}
    \/ /\ call.before.enable_risk_filter
       /\ ~call.analysis.has_context
       /\ call.decision.action \in {"BUY", "SELL"}

\* C20: fail-safe.  generate_signal never raises; when the decision errored
\* the result is no signal and the engine submits no order.
C20_FailSafe ==
    call.op = "generate_signal"
    => /\ call.outcome = "ok"
       /\ Errored => ( /\ call.signal = None
                       /\ last.op = "run_once"
                       /\ last.outcome = "none"
                       /\ last.order = None )

\* C20 witness: the analyzer raised inside generate_signal, and run_once
\* ended without an order.
C20_Witness ==
    /\ call.op = "generate_signal"
    /\ call.analysis.outcome = "raise"
    /\ call.stage = "error"
    /\ call.outcome = "ok"
    /\ last.outcome = "none"


---------------------------------------------------------------------------
(* AutoTradingBot.backtest: autotrader/engine.py lines 83-132 *)

\* Bars in the longest history the provider serves to a backtest.
MaxBars == 6

\* Backtests run one after the other on the same engine.
MaxBacktests == 2

\* A slip of line 101: the replay starts at the first bar.
FirstWindowOne(strat) == 1

\* Line 101: the length of the first window, strategy.minimum_history.
FirstWindow(strat) == minimum_history(strat)

\* What the analyzer and the oracle answer at bar `bar` of a backtest of the
\* LLM strategy: the entry of the script for that bar, a calm market and HOLD
\* where the script has none.
OracleAt(bar) ==
    IF bar - LLMMinimumHistory + 1 \in DOMAIN oracle
    THEN oracle[bar - LLMMinimumHistory + 1]
    ELSE <<CalmMarket, Json("HOLD", 90, "")>>

\* _generate_signal(window) at bar `bar`, the clock reading `now`: the
\* strategy's generate_signal, whichever class it is.
GenerateSignal(strat, window, bar, now) ==
    IF strat.kind = "ma"
    THEN [outcome |-> "ok", strategy |-> strat,
          signal |-> MAGenerateSignal(strat, window, positions)]
    ELSE LET g == LLMGenerateSignal(
                      strat, now,
                      AnalyzerAnswer(OracleAt(bar)[1], cash, positions,
                                     strat.symbol),
                      ClientAnswer(OracleAt(bar)[2]))
         IN  [outcome |-> g.outcome, strategy |-> g.strategy,
              signal |-> g.signal]

\* An exception leaves backtest: nothing is returned.
Raised(exception) == Some([outcome |-> exception])

\* Lines 90-101: _reset_state(), the fetch of the whole window, the data
\* error on an empty one, the empty equity curve and the first index.
Backtest ==
    /\ bt.pc = "idle"
    /\ bt.runs < MaxBacktests
    /\ trade_history' = << >>
    /\ cash' = ResetCash(starting_cash, Some(config.cash))
    /\ positions' = EmptyPositions
    /\ starting_cash' = ResetStartingCash(starting_cash, Some(config.cash))
    /\ ledger_log' = [EmptyLog EXCEPT !.base = cash']
    /\ baseline' = config.cash
    /\ earlier' = results
    /\ equity_curve' = << >>
    /\ IF Len(candles) = 0
       THEN /\ results' = Raised("ValueError")
            /\ bt' = [bt EXCEPT !.runs = @ + 1, !.signals = << >>,
                                !.held = << >>]
            /\ last' = [NoCall EXCEPT !.op = "backtest",
                                      !.outcome = "ValueError"]
       ELSE /\ results' = None
            /\ bt' = [pc |-> "loop", idx |-> FirstWindow(strategy),
                      runs |-> bt.runs, signals |-> << >>, held |-> << >>]
            /\ last' = [NoCall EXCEPT !.op = "backtest", !.outcome = "reset"]
    /\ UNCHANGED <<slippage_bps, commission, config, steps, candles,
                   strategy, clock, call, oracle, emitted>>
    /\ UNCHANGED <<loop, sched>>

\* Lines 101-112, one turn of the loop, `elapsed` minutes after the turn
\* before: the window of the first idx bars, the signal, the order at the
\* window's last close, then the entry of the equity curve.
BacktestBar(elapsed) ==
    /\ bt.pc = "loop"
    /\ bt.idx <= Len(candles)
    /\ clock' = clock + elapsed
    /\ \E window \in {SubSeq(candles, 1, bt.idx)} :
       \E g \in {GenerateSignal(strategy, window, bt.idx, clock')} :
       \E price \in {window[Len(window)]} :
          /\ strategy' = g.strategy
          /\ emitted' = IF g.signal = None THEN emitted
                        ELSE Append(emitted, g.signal[1].timestamp)
          /\ IF g.outcome = "raise"
             THEN /\ last' = [NoCall EXCEPT !.op = "backtest",
                                            !.outcome = "Exception"]
                  /\ UNCHANGED <<cash, positions, trade_history, ledger_log>>
             ELSE PlaceOrder("backtest", g.signal, price)
          /\ IF last'.outcome \in {"none", "trade"}
             THEN /\ equity_curve' =
                        Append(equity_curve,
                               <<bt.idx, total_equity(cash', positions',
                                                      PriceMap(price))>>)
                  /\ bt' = [bt EXCEPT
                              !.idx = @ + 1,
                              !.signals =
                                  Append(@, IF g.signal = None THEN "none"
                                            ELSE g.signal[1].action),
                              !.held =
                                  Append(@, position_size(positions,
                                                          config.symbol))]
                  /\ results' = results
             ELSE /\ results' = Raised(last'.outcome)
                  /\ bt' = [bt EXCEPT !.pc = "idle", !.runs = @ + 1]
                  /\ equity_curve' = equity_curve
    /\ UNCHANGED <<starting_cash, slippage_bps, commission, config, baseline,
                   steps, candles, earlier, call, oracle>>
    /\ UNCHANGED <<loop, sched>>


\* A slip of line 117: the ratio, without the 1 taken off.
TotalReturnRatio(ending_equity, starting_equity) ==
    Quot(ending_equity, starting_equity)

\* Line 117: (ending_equity / starting_equity) - 1, for starting_equity # 0.
TotalReturn(ending_equity, starting_equity) ==
    Quot(ending_equity - starting_equity, starting_equity)

\* Lines 114-132: the closing price, the ending equity, the total return,
\* the maximum drawdown and the trades, returned as the results.
BacktestReturn ==
    /\ bt.pc = "loop"
    /\ bt.idx > Len(candles)
    /\ \E ending_equity \in
            {total_equity(cash, positions, PriceMap(candles[Len(candles)]))} :
       \E d \in {calculate_max_drawdown(equity_curve)} :
          results' =
              IF config.cash = 0 THEN Raised("ZeroDivisionError")
              ELSE IF d.outcome # "ok" THEN Raised(d.outcome)
              ELSE Some([outcome |-> "ok",
                         trades |-> trade_history,
                         ending_equity |-> ending_equity,
                         total_return |-> TotalReturn(ending_equity,
                                                      config.cash),
                         max_drawdown |-> d.max_drawdown,
                         equity_curve |-> equity_curve])
    /\ bt' = [bt EXCEPT !.pc = "idle", !.runs = @ + 1]
    /\ last' = [NoCall EXCEPT !.op = "backtest",
                              !.outcome = results'[1].outcome]
    /\ UNCHANGED <<cash, starting_cash, positions, trade_history,
                   slippage_bps, commission, config, ledger_log, baseline,
                   steps, candles, equity_curve, earlier, strategy, clock,
                   call, oracle, emitted>>
    /\ UNCHANGED <<loop, sched>>

\* A trade made on the venue while no backtest runs.
TradeBetween ==
    /\ bt.pc = "idle"
    /\ SubmitOrder(config.symbol, QtyUnit, LLMPrice, "buy")

\* What a bar of a backtest of the LLM strategy can meet: a decision to buy,
\* a decision to sell, a decision to hold, an analyzer that raises.
BarInputs ==
    {<<CalmMarket, Json("BUY", 90, "")>>, <<CalmMarket, Json("SELL", 90, "")>>,
     <<CalmMarket, Json("HOLD", 90, "")>>,
     <<[CalmMarket EXCEPT !.kind = "raises"], Json("BUY", 90, "")>>}

\* Bars the provider serves to a backtest of the LLM strategy beyond the
\* first window.
LLMBars == {0 - LLMMinimumHistory, 0 - 1, 0, 1, 2}

\* build_bot(config) with the moving-average strategy and a provider whose
\* history for the window holds up to MaxBars bars.
InitBacktestMA ==
    /\ Constructed(ReplayCash, {2500}, {MoneyDen}, RiskValues)
    /\ strategy = MovingAverageCrossStrategy("AAPL", ShortWindow, LongWindow)
    /\ \E n \in 0..MaxBars : candles \in [1..n -> Closes]
    /\ oracle = << >>

\* LLMAutoTradingBot(config, ...) with the default LLM settings, a provider
\* whose history holds about minimum_history bars at one price, and an
\* analyzer and an oracle that answer by a fixed script.
InitBacktestLLM ==
    /\ Constructed(ReplayCash, {2500}, {MoneyDen}, RiskValues)
    /\ strategy = LLMAgentStrategy("AAPL", DefaultMinConfidence, TRUE,
                                   DefaultInterval)
    /\ \E extra \in LLMBars :
          /\ candles = [i \in 1..(LLMMinimumHistory + extra) |-> LLMPrice]
          /\ oracle \in [1..Max(0, extra + 1) -> BarInputs]

InitBacktest ==
    /\ InitBacktestMA \/ InitBacktestLLM
    /\ bt = BtIdle
    /\ equity_curve = << >>
    /\ results = None
    /\ earlier = None
    /\ clock = 0
    /\ call = NoSignalCall
    /\ emitted = << >>
    /\ loop = LoopOff
    /\ sched = SchedulerOff

BacktestCalls ==
    \/ Backtest
    \/ \E elapsed \in (IF strategy.kind = "llm" THEN ElapsedValues ELSE {0}) :
          BacktestBar(elapsed)
    \/ BacktestReturn
    \/ TradeBetween

\* Backtests of either strategy, with trades on the venue in between.
SpecBacktest == InitBacktest /\ [][BacktestCalls]_vars


---------------------------------------------------------------------------
(* Properties of the backtest *)

\* The results of a backtest that has returned.
Returned(r) == r # None /\ r[1].outcome = "ok"

\* C13: the replay goes bar by bar.  The first window evaluated has
\* minimum_history bars and every turn of the loop moves one bar on, up to
\* bar N; a trade made in a turn fills from that window's last close and is
\* made before the turn's entry is recorded, so the entry (bar, total
\* equity) values the ledger after the trade at that close; the equity curve
\* returned has exactly max(0, N - minimum_history + 1) entries, in bar
\* order.
C13_BarByBar ==
    [][ /\ ( bt.pc = "idle" /\ bt'.pc = "loop" )
           => bt'.idx = minimum_history(strategy) /\ equity_curve' = << >>
        /\ ( bt.pc = "loop" /\ bt'.pc = "loop" )
           => /\ bt.idx <= Len(candles)
              /\ bt'.idx = bt.idx + 1
              /\ Len(trade_history') <= Len(trade_history) + 1
              /\ Len(trade_history') = Len(trade_history) + 1
                 => LET trade == trade_history'[Len(trade_history')]
                    IN  trade.price =
                            IF trade.order.side = "buy"
                            THEN (candles[bt.idx] * (10000 + slippage_bps))
                                     \div 10000
                            ELSE (candles[bt.idx] * 10000)
                                     \div (10000 + slippage_bps)
              /\ equity_curve' =
                    Append(equity_curve,
                           <<bt.idx,
                             cash' + position_size(positions', config.symbol)
                                         * candles[bt.idx]>>)
        /\ ( bt.pc = "loop" /\ bt'.pc = "idle" /\ Returned(results') )
           => /\ bt.idx = Max(minimum_history(strategy), Len(candles) + 1)
              /\ Len(results'[1].equity_curve)
                     = Max(0, Len(candles) - minimum_history(strategy) + 1)
              /\ \A k \in 1..Len(results'[1].equity_curve) :
                     results'[1].equity_curve[k][1]
                         = minimum_history(strategy) + k - 1
      ]_vars

\* C13 witness: a backtest has returned a curve of three entries and a
\* trade, the entry of the bar of the trade below the starting cash by the
\* cost of the trade.
C13_Witness ==
    /\ Returned(results)
    /\ Len(results[1].equity_curve) = 3
    /\ Len(results[1].trades) >= 1
    /\ \E k \in 1..3 : results[1].equity_curve[k][2] < config.cash

\* The short average is above the long one at bar t and was not at bar t - 1.
CrossesUpAt(closes, t) ==
    /\ Less(RollingMean(closes, t, LongWindow),
            RollingMean(closes, t, ShortWindow))
    /\ ~Less(RollingMean(closes, t - 1, LongWindow),
             RollingMean(closes, t - 1, ShortWindow))

\* The short average is below the long one at bar t and was not at bar t - 1.
CrossesDownAt(closes, t) ==
    /\ Less(RollingMean(closes, t, ShortWindow),
            RollingMean(closes, t, LongWindow))
    /\ ~Less(RollingMean(closes, t - 1, ShortWindow),
             RollingMean(closes, t - 1, LongWindow))

\* No crossing at bar t, in either direction.
NoCrossingAt(closes, t) == ~CrossesUpAt(closes, t) /\ ~CrossesDownAt(closes, t)

\* The averages at bar t are apart by minimum_confidence of the long one, or
\* more.
ConfidentAt(closes, t) ==
    LET s == RollingMean(closes, t, ShortWindow)
        l == RollingMean(closes, t, LongWindow)
    IN  Abs(s[1] * l[2] - l[1] * s[2]) * MinimumConfidence[2]
            >= MinimumConfidence[1] * l[1] * s[2]

\* Bar k of the replay is bar t of the history: every crossing up at t
\* for which `crossing` holds, met with a flat position, gets a buy signal at t,
\* and the bars next to t get no signal when they have no crossing.
OneBuyAt(k, t, crossing) ==
    ( crossing /\ bt.held[k] = 0 )
    => /\ bt.signals[k] = "buy"
       /\ ( k > 1 /\ NoCrossingAt(candles, t - 1) )
          => bt.signals[k - 1] = "none"
       /\ ( k < Len(bt.signals) /\ NoCrossingAt(candles, t + 1) )
          => bt.signals[k + 1] = "none"

\* C15 as stated: in a replay of the moving-average strategy, a crossing up
\* exactly at bar t with a flat position before t gets a buy signal at bar
\* t, and no signal at bar t - 1 or t + 1 unless there is a crossing there.
C15_CrossoverDeterminism ==
    strategy.kind = "ma"
    => \A k \in 1..Len(bt.signals) :
          OneBuyAt(k, LongWindow + k, CrossesUpAt(candles, LongWindow + k))

\* C15 amended: the same for a crossing whose confidence, |short - long| /
\* long at bar t, reaches minimum_confidence.
C15_ConfidentCrossover ==
    strategy.kind = "ma"
    => \A k \in 1..Len(bt.signals) :
          OneBuyAt(k, LongWindow + k,
                   CrossesUpAt(candles, LongWindow + k)
                   /\ ConfidentAt(candles, LongWindow + k))

\* C15 witness: three bars replayed, a confident crossing up at the middle
\* one met flat: a buy there and no signal on either side.
C15_Witness ==
    /\ strategy.kind = "ma"
    /\ Len(bt.signals) = 3
    /\ CrossesUpAt(candles, LongWindow + 2)
    /\ ConfidentAt(candles, LongWindow + 2)
    /\ bt.held[2] = 0
    /\ bt.signals = <<"none", "buy", "none">>

\* C11: a backtest run after another one on the same engine, the provider,
\* the analyzer and the oracle answering as before, ends as the one before
\* it: the same trades, the same equity curve, the same ending equity.
C11_ReplayDeterministic ==
    ( bt.pc = "idle" /\ bt.runs >= 2 /\ results # None /\ earlier # None )
    => /\ results[1].outcome = earlier[1].outcome
       /\ Returned(results)
          => /\ results[1].trades = earlier[1].trades
             /\ results[1].equity_curve = earlier[1].equity_curve
             /\ results[1].ending_equity = earlier[1].ending_equity


---------------------------------------------------------------------------
(* LLMClient.get_trading_decision on the oracle's responses *)

\* The action values the oracle's JSON carries.
ActionValues == {"BUY", "SELL", "HOLD", "buy", "Sell", "hold", "WAIT", "wait",
                 ""}

\* The confidence values it carries, in percent.
ConfidenceValues == {0 - 10, 0, 60, FullConfidence, FullConfidence + 1, 150}

\* The responses of the oracle a call can meet.
Responses ==
    [kind : {"json"}, missing : SUBSET RequiredFields, action : ActionValues,
     action_as : {"string", "other"}, confidence : ConfidenceValues,
     confidence_as : {"number", "string", "text", "nan"},
     risk_level : {""}]
    \cup {[Json("BUY", 90, "") EXCEPT !.kind = k] :
             k \in {"text", "api_error", "json_list", "json_number"}}

\* An LLMClient and the response its oracle is about to give.
InitClient ==
    /\ Constructed({8 * MoneyDen}, {0}, {0}, {<<<<1, 4>>, <<1, 2>>>>})
    /\ oracle \in {<<r>> : r \in Responses}
    /\ candles = << >>
    /\ bt = BtIdle
    /\ equity_curve = << >>
    /\ results = None
    /\ earlier = None
    /\ strategy = NoStrategy
    /\ clock = 0
    /\ call = NoSignalCall
    /\ emitted = << >>
    /\ loop = LoopOff
    /\ sched = SchedulerOff

\* client.get_trading_decision(market_data)
GetTradingDecision ==
    /\ results = None
    /\ results' = Some(get_trading_decision(oracle[1]))
    /\ UNCHANGED <<cash, starting_cash, positions, trade_history,
                   slippage_bps, commission, config, last, ledger_log,
                   baseline, steps, candles, bt, equity_curve, earlier,
                   strategy, clock, call, oracle, emitted>>
    /\ UNCHANGED <<loop, sched>>

SpecClient == InitClient /\ [][GetTradingDecision]_vars

\* The spellings of the three actions, in any letter case, among the values
\* the oracle answers with.
Spellings ==
    {"BUY", "buy", "SELL", "Sell", "HOLD", "hold"}

\* The response lacks a required field, or its action is not BUY, SELL or
\* HOLD in any letter case, or its confidence is no number in [0, 1].
Rejectable(r) ==
    \/ r.kind # "json"
    \/ "action" \in r.missing
    \/ "confidence" \in r.missing
    \/ "rationale" \in r.missing
    \/ r.action_as # "string"
    \/ r.action \notin Spellings
    \/ r.confidence_as \in {"text", "nan"}
    \/ r.confidence < 0
    \/ r.confidence > FullConfidence

\* C21: oracle response validation.  get_trading_decision returns no
\* decision for a response that lacks one of action, confidence, rationale,
\* whose action is not BUY, SELL or HOLD (in any letter case), or whose
\* confidence is outside [0, 1]; a decision it returns has an upper-case
\* action among BUY, SELL, HOLD and a confidence in [0, 1].
C21_ResponseValidation ==
    results # None
    => /\ Rejectable(oracle[1]) => results[1].outcome = "none"
       /\ results[1].outcome = "ok"
          => /\ results[1].action \in {"BUY", "SELL", "HOLD"}
             /\ 0 <= results[1].confidence
             /\ results[1].confidence <= FullConfidence

\* C21 witness: a response with the action spelled Sell and the confidence
\* 1.0 given as a string has been turned into a SELL decision.
C21_Witness ==
    /\ results # None
    /\ oracle[1].action = "Sell"
    /\ oracle[1].confidence_as = "string"
    /\ results[1].outcome = "ok"
    /\ results[1].action = "SELL"
    /\ results[1].confidence = FullConfidence

\* A response with a negative confidence has been turned down.
C21_Rejected ==
    /\ results # None
    /\ oracle[1].missing = {}
    /\ oracle[1].action = "BUY"
    /\ oracle[1].confidence < 0
    /\ results[1].outcome = "none"


---------------------------------------------------------------------------
(* run_once with nothing to do *)

\* What min(cash * risk_per_trade, room under the position cap) buys at
\* `price` is less than one share, the ledger taken before the call.
LessThanOneShare(price) ==
    LET held == position_size(positions, config.symbol)
        room == Max(0, (cash + held * price) * config.max_position_pct[1]
                         - held * price * config.max_position_pct[2])
    IN  \/ cash * config.risk_per_trade[1]
              < price * QtyUnit * config.risk_per_trade[2]
        \/ room < price * QtyUnit * config.max_position_pct[2]

\* The step is a run_once call with nothing actionable: no candles or no
\* signal, an action that is neither buy nor sell, a buy that sizes to less
\* than one share, a sell with nothing held.
NothingActionable ==
    /\ last'.op = "run_once"
    /\ steps' = steps + 1
    /\ \/ last'.side = ""
       \/ last'.side \notin {"buy", "sell", "BUY", "SELL"}
       \/ last'.side \in {"buy", "BUY"} /\ LessThanOneShare(last'.price)
       \/ /\ last'.side \in {"sell", "SELL"}
          /\ position_size(positions, config.symbol) <= 0

\* C22: a run_once call with nothing actionable returns None without
\* raising and leaves cash, positions and trade_history as they were,
\* however often it is made.
C22_NoTradeChangesNothing ==
    [][ NothingActionable
        => /\ last'.outcome = "none"
           /\ cash' = cash
           /\ positions' = positions
           /\ trade_history' = trade_history ]_vars

\* C22 witness: after a trade, a buy signal that sizes to no order has been
\* answered with no trade for at least the second time in a row.
C22_Witness ==
    /\ last.op = "run_once"
    /\ last.side = "buy"
    /\ last.outcome = "none"
    /\ Len(trade_history) = 1
    /\ steps >= 3
    /\ position_size(positions, config.symbol) > 0


---------------------------------------------------------------------------
(* AutoTradingBot.run_forever: autotrader/engine.py lines 69-81 *)

\* What one iteration meets: a provider that raises, returns no candles or
\* returns candles with the last close `price`; a strategy that raises or
\* answers `signal`; and, on a venue that has other clients, the order of
\* another client filled between the engine's sizing and its submission.
IterationInputs ==
    {[fetch |-> f, price |-> PriceDen, strategy |-> "answers",
      signal |-> None, outside |-> None] : f \in {"raises", "empty"}}
    \cup {[fetch |-> "candles", price |-> PriceDen, strategy |-> "raises",
           signal |-> None, outside |-> None]}
    \cup [fetch : {"candles"}, price : MarketPrices, strategy : {"answers"},
          signal : SignalInputs, outside : {None}]
    \cup [fetch : {"candles"}, price : {PriceDen}, strategy : {"answers"},
          signal : {Some("sell")},
          outside : {Some(Order("AAPL", QtyUnit, "sell"))}]

\* run_once, lines 46-67, on the ledger (c, pos, history): what it returns
\* or raises and the ledger it leaves.  No call of it is inside a try.
RunOnceResult(c, pos, history, i) ==
    LET Same(outcome) ==
            [outcome |-> outcome, cash |-> c, positions |-> pos,
             trade_history |-> history, log |-> ledger_log]
    IN  IF i.fetch = "raises" THEN Same("FetchError")
        ELSE IF i.fetch = "empty" THEN Same("none")
        ELSE IF i.strategy = "raises" THEN Same("StrategyError")
        ELSE IF i.signal = None THEN Same("none")
        ELSE
          LET order == CreateOrder(c, pos, config, i.signal[1],
                                   config.symbol, i.price)
          IN  IF order = None THEN Same("none")
              ELSE
                LET v == IF i.outside = None THEN Same("ok")
                         ELSE SubmitOrderResult(c, pos, history, slippage_bps,
                                                commission, i.outside[1],
                                                i.price)
                    vlog == IF i.outside = None THEN ledger_log
                            ELSE Logged(ledger_log, v.outcome,
                                        i.outside[1].side,
                                        i.outside[1].quantity,
                                        FillPrice(i.outside[1].side, i.price,
                                                  slippage_bps),
                                        commission)
                    r == SubmitOrderResult(v.cash, v.positions,
                                           v.trade_history, slippage_bps,
                                           commission, order[1], i.price)
                IN  [outcome |-> IF r.outcome = "ok" THEN "trade"
                                 ELSE r.outcome,
                     cash |-> r.cash, positions |-> r.positions,
                     trade_history |-> r.trade_history,
                     log |-> Logged(vlog, r.outcome, order[1].side,
                                    order[1].quantity,
                                    FillPrice(order[1].side, i.price,
                                              slippage_bps),
                                    commission)]

\* run_once returned, a Trade or None.
Returns(outcome) == outcome \in {"none", "trade"}

\* A slip of lines 77-78: the exception is logged and raised again.
AfterRunOnceReraise(outcome) == IF Returns(outcome) THEN "sleep" ELSE "crashed"

\* Lines 75-79: whatever run_once returns, and whatever Exception it raises,
\* the loop goes on to time.sleep.
AfterRunOnce(outcome) == "sleep"

\* The counters of the loop stop counting at MaxIterations.
Counted(n) == Min(n + 1, MaxIterations)

\* bot.run_forever(): lines 72-74, up to the first iteration.
RunForever ==
    /\ loop.pc = "off"
    /\ loop' = [loop EXCEPT !.pc = "run_once"]
    /\ UNCHANGED <<cash, starting_cash, positions, trade_history,
                   slippage_bps, commission, config, last, ledger_log,
                   baseline, steps, candles, bt, equity_curve, results,
                   earlier, strategy, clock, call, oracle, emitted, sched>>

\* Lines 75-78: one run_once inside the try, and the handler of Exception.
\* No more than MaxSteps trades are explored.
Iteration(i) ==
    /\ loop.pc = "run_once"
    /\ Len(trade_history) < MaxSteps \/ i.signal = None
    /\ \E r \in {RunOnceResult(cash, positions, trade_history, i)} :
          /\ cash' = r.cash
          /\ positions' = r.positions
          /\ trade_history' = r.trade_history
          /\ ledger_log' = r.log
          /\ last' = [NoCall EXCEPT
                         !.op = "run_once", !.price = i.price,
                         !.side = IF i.signal = None THEN "" ELSE i.signal[1],
                         !.outcome = r.outcome]
          /\ call' = [op |-> "run_once", met |-> i]
          /\ loop' = [pc |-> AfterRunOnce(r.outcome),
                      iterations |-> Counted(loop.iterations),
                      logged |-> IF Returns(r.outcome) THEN loop.logged
                                 ELSE Counted(loop.logged)]
    /\ UNCHANGED <<starting_cash, slippage_bps, commission, config, baseline,
                   steps, candles, bt, equity_curve, results, earlier,
                   strategy, clock, oracle, emitted, sched>>

\* Line 79: time.sleep(poll_interval_seconds) returns.
Sleep ==
    /\ loop.pc = "sleep"
    /\ loop' = [loop EXCEPT !.pc = "run_once"]
    /\ UNCHANGED <<cash, starting_cash, positions, trade_history,
                   slippage_bps, commission, config, last, ledger_log,
                   baseline, steps, candles, bt, equity_curve, results,
                   earlier, strategy, clock, call, oracle, emitted, sched>>

\* Lines 80-81: KeyboardInterrupt, raised in run_once or in the sleep.
Interrupt ==
    /\ loop.pc \in {"run_once", "sleep"}
    /\ loop' = [loop EXCEPT !.pc = "interrupted"]
    /\ UNCHANGED <<cash, starting_cash, positions, trade_history,
                   slippage_bps, commission, config, last, ledger_log,
                   baseline, steps, candles, bt, equity_curve, results,
                   earlier, strategy, clock, call, oracle, emitted, sched>>

\* build_bot(config), then run_forever.
InitRunForever ==
    /\ Constructed(CashValues, {2500}, CommissionValues, RiskValues)
    /\ Quiet

LoopCalls ==
    \/ RunForever
    \/ \E i \in IterationInputs : Iteration(i)
    \/ Sleep
    \/ Interrupt

\* The loop, with a sleep that returns and a run_once that comes to an end.
SpecRunForever ==
    /\ InitRunForever
    /\ [][LoopCalls]_vars
    /\ WF_vars(Sleep)
    /\ WF_vars(\E i \in IterationInputs : Iteration(i))


---------------------------------------------------------------------------
(* Properties of the run loop *)

\* The step is an iteration of the loop: its run_once has come to an end,
\* by returning or by raising.
IterationStep == loop.pc = "run_once" /\ loop'.pc \in {"sleep", "crashed"}

\* C23: run_forever survives a bad iteration.  An iteration whose run_once
\* raised leaves the loop running, in its sleep; a run_once is started only
\* when none is under way; and unless the loop is interrupted the sleep is
\* followed by a further run_once and a run_once by the next sleep, so
\* iterations keep occurring.
C23_LoopSurvives ==
    /\ [][ IterationStep /\ ~Returns(last'.outcome)
           => loop'.pc = "sleep" ]_vars
    /\ [][ loop'.pc = "run_once" /\ loop.pc # "run_once"
           => loop.pc \in {"off", "sleep"} ]_vars
    /\ ( loop.pc = "sleep" ) ~> ( loop.pc \in {"run_once", "interrupted"} )
    /\ ( loop.pc = "run_once" ) ~> ( loop.pc \in {"sleep", "interrupted"} )

\* C23 witness: after an iteration in which the strategy raised, the loop
\* has slept and is in its next run_once.
C23_Witness ==
    /\ loop.pc = "run_once"
    /\ loop.iterations >= 1
    /\ loop.logged >= 1
    /\ last.outcome = "StrategyError"

\* C24: a fill that violates a ledger invariant in an iteration of the loop
\* stops the loop: no sleep and no further run_once follow it.
C24_LedgerErrorStops ==
    [][ IterationStep /\ last'.outcome = "RuntimeError"
        => loop'.pc \notin {"sleep", "run_once"} ]_vars

\* C25: an iteration whose history request fails ends with run_once
\* returning the no-trade outcome, the ledger as it was.
C25_FetchFailureRecovered ==
    [][ IterationStep /\ call'.met.fetch = "raises"
        => /\ last'.outcome = "none"
           /\ cash' = cash
           /\ positions' = positions
           /\ trade_history' = trade_history ]_vars

---------------------------------------------------------------------------
(* MovingAverageCrossStrategy built and called on its own *)

\* The windows a strategy is asked for: every pair of them is tried, the
\* pairs with short_window >= long_window included.
WindowValues == 1..LongWindow

\* The closes of the histories a strategy is called on: a price and ten
\* times that price.
StrategyCloses == {PriceDen, 10 * PriceDen}

\* A slip of line 30: equal windows are let through.
RejectedWindowsEqualAllowed(short_window, long_window) ==
    short_window > long_window

\* Line 30: the test that makes __init__ raise ValueError.
RejectedWindows(short_window, long_window) == short_window >= long_window

\* strategy = MovingAverageCrossStrategy("AAPL", short_window, long_window):
\* on ValueError the name keeps what it was bound to.
NewStrategy(short_window, long_window) ==
    /\ steps < MaxSteps
    /\ IF RejectedWindows(short_window, long_window)
       THEN /\ call' = [op |-> "__init__", short_window |-> short_window,
                        long_window |-> long_window, outcome |-> "ValueError"]
            /\ strategy' = strategy
       ELSE /\ call' = [op |-> "__init__", short_window |-> short_window,
                        long_window |-> long_window, outcome |-> "ok"]
            /\ strategy' = MovingAverageCrossStrategy("AAPL", short_window,
                                                      long_window)
    /\ steps' = steps + 1
    /\ UNCHANGED <<cash, starting_cash, positions, trade_history,
                   slippage_bps, commission, config, last, ledger_log,
                   baseline, candles, bt, equity_curve, results, earlier,
                   clock, oracle, emitted, loop, sched>>

\* strategy.generate_signal(data, portfolio) on the closes `history` and the
\* venue's portfolio, whose position it looks up.
GenerateSignalMA(history) ==
    /\ steps < MaxSteps
    /\ strategy.kind = "ma"
    /\ candles' = history
    /\ call' = [op |-> "generate_signal", data |-> history,
                held |-> position_size(positions, strategy.symbol),
                signal |-> MAGenerateSignal(strategy, history, positions)]
    /\ positions' = PositionsAfterLookup(positions, strategy.symbol)
    /\ steps' = steps + 1
    /\ UNCHANGED <<cash, starting_cash, trade_history, slippage_bps,
                   commission, config, last, ledger_log, baseline, bt,
                   equity_curve, results, earlier, strategy, clock, oracle,
                   emitted, loop, sched>>

\* A share is bought on the venue, so that calls are made with a position.
BuyShare == SubmitOrder(config.symbol, QtyUnit, PriceDen, "buy")

\* A venue, and no strategy yet.
InitStrategy ==
    /\ Constructed(ReplayCash, {2500}, {MoneyDen}, RiskValues)
    /\ Quiet

StrategyCalls ==
    \/ \E short_window \in WindowValues, long_window \in WindowValues :
          NewStrategy(short_window, long_window)
    \/ \E n \in 0..(LongWindow + 1) :
          \E history \in [1..n -> StrategyCloses] : GenerateSignalMA(history)
    \/ BuyShare

\* Strategies built with any windows and called on any short history.
SpecStrategy == InitStrategy /\ [][StrategyCalls]_vars

\* C26: every Signal a strategy emits has a confidence in [0, 1] (for the LLM
\* strategy, counted in percent, in [0, 100]); for the moving-average
\* strategy |short(now) - long(now)| / long(now) <= 1 whenever a signal is
\* emitted.
C26_ConfidenceInUnitInterval ==
    ( call.op = "generate_signal" /\ call.signal # None )
    => IF strategy.kind = "ma"
       THEN /\ ~Less(call.signal[1].confidence, <<0, 1>>)
            /\ ~Less(<<1, 1>>, call.signal[1].confidence)
       ELSE /\ 0 <= call.signal[1].confidence
            /\ call.signal[1].confidence <= FullConfidence

\* The step is a call counted by `steps` on the strategy class or object.
StrategyCall(op) == steps' = steps + 1 /\ call'.op = op

\* C29: MovingAverageCrossStrategy(short_window, long_window) with
\* short_window >= long_window raises ValueError, and the name keeps the
\* object it had (none, or the strategy built before: no default takes its
\* place); with short_window < long_window the object carries the two
\* windows and its minimum_history is long_window + 1; and generate_signal
\* on fewer bars than long_window + 1 returns no signal.
C29_WindowsValidated ==
    /\ [][ StrategyCall("__init__")
           => IF call'.short_window >= call'.long_window
              THEN call'.outcome = "ValueError" /\ strategy' = strategy
              ELSE /\ call'.outcome = "ok"
                   /\ strategy'.kind = "ma"
                   /\ strategy'.short_window = call'.short_window
                   /\ strategy'.long_window = call'.long_window
                   /\ minimum_history(strategy') = call'.long_window + 1 ]_vars
    /\ [][ ( StrategyCall("generate_signal")
             /\ Len(call'.data) < strategy.long_window + 1 )
           => call'.signal = None ]_vars

\* C29 witness: a strategy was built and called on fewer bars than its
\* minimum_history, and a later construction with short_window >=
\* long_window has raised and left that strategy in place.
C29_Witness ==
    /\ call.op = "__init__"
    /\ call.outcome = "ValueError"
    /\ call.short_window >= call.long_window
    /\ strategy.kind = "ma"
    /\ candles # << >>
    /\ Len(candles) < minimum_history(strategy)

---------------------------------------------------------------------------
(* The trade history *)

\* The step is a submit_order call that returned a Trade (a call applies a
\* fill, so the ledger's log tells it from a step that makes no call).
Submitted ==
    /\ last'.order # None
    /\ last'.outcome \in {"ok", "trade"}
    /\ ledger_log' # ledger_log

\* The Trade that submit_order builds for the order of the call `l`.
TradeOf(l) ==
    Trade(l.order[1], FillPrice(l.order[1].side, l.price, slippage_bps),
          commission)

\* The step leaves the history as it was, but for one Trade more at its end
\* when a submit_order call returned.
AppendsOnly ==
    IF Submitted THEN trade_history' = Append(trade_history, TradeOf(last'))
    ELSE trade_history' = trade_history

\* The step is PaperBroker.reset, called on the venue or by _reset_state at
\* the start of a backtest.
ResetStep ==
    \/ last'.op = "broker.reset"
    \/ bt.pc = "idle" /\ last'.op = "backtest"

\* C28 as stated: the trade history is append-only.  Every successful
\* submit_order appends exactly one Trade at the end, and no step of the
\* broker or the engine modifies, reorders or deletes a Trade in the history.
C28_AppendOnly == [][AppendsOnly]_vars

\* C28 amended: between resets the trade history is append-only (a
\* successful submit_order appends exactly one Trade at the end, every other
\* step leaves the history as it is), and PaperBroker.reset, also at the
\* start of every backtest, empties it.
C28_AppendOnlyBetweenResets ==
    [][ IF ResetStep THEN trade_history' = << >> ELSE AppendsOnly ]_vars

\* C28 witness: after a backtest has reset the venue, the history holds two
\* different trades, the later one at the end.
C28_Witness ==
    /\ bt.runs >= 1
    /\ Len(trade_history) >= 2
    /\ trade_history[1].order.side = "buy"
    /\ trade_history[2].order.side = "sell"

---------------------------------------------------------------------------
(* Cost basis *)

\* The step is a fill the ledger has applied, asked of the ledger or of the
\* venue.
Filled ==
    /\ steps' = steps + 1
    /\ last'.op \in {"update_on_fill", "submit_order"}
    /\ last'.outcome = "ok"

\* The price at which the call `l` filled.
FilledAt(l) ==
    IF l.op = "submit_order" THEN FillPrice(l.side, l.price, slippage_bps)
    ELSE l.price

\* The average_price of the position in `symbol`, 0.0 for a new Position.
AveragePrice(pos, symbol) ==
    IF symbol \in DOMAIN pos THEN pos[symbol].average_price ELSE <<0, 1>>

\* C30: a buy sets the position's quantity to old_quantity + quantity and
\* its average_price to (old_quantity x old_average + quantity x fill_price)
\* / (old_quantity + quantity), the commission left out; a sell that keeps
\* the position reduces its quantity by the quantity sold and leaves its
\* average_price as it was.
C30_CostBasis ==
    [][ Filled =>
        LET symbol == last'.symbol
            quantity == last'.quantity
            old_quantity == position_size(positions, symbol)
            old_average == AveragePrice(positions, symbol)
            average == AveragePrice(positions', symbol)
        IN  IF Lower(last'.side) = "buy"
            THEN /\ symbol \in DOMAIN positions'
                 /\ positions'[symbol].quantity = old_quantity + quantity
                 /\ average[1] * old_average[2] * (old_quantity + quantity)
                    = ( old_quantity * old_average[1]
                        + quantity * FilledAt(last') * old_average[2] )
                      * average[2]
            ELSE symbol \in DOMAIN positions'
                 => /\ positions'[symbol].quantity = old_quantity - quantity
                    /\ average = old_average ]_vars

\* C30 witness: two buys at different prices gave a cost basis between the
\* two prices, and a sell has kept part of the position.
C30_Witness ==
    /\ last.op \in {"update_on_fill", "submit_order"}
    /\ last.outcome = "ok"
    /\ Lower(last.side) = "sell"
    /\ last.symbol \in DOMAIN positions
    /\ positions[last.symbol].quantity > 0
    /\ Less(<<PriceDen, 1>>, positions[last.symbol].average_price)
    /\ Less(positions[last.symbol].average_price, <<2 * PriceDen, 1>>)

---------------------------------------------------------------------------
(* One engine used for run_once and for backtests *)

\* risk_per_trade and max_position_pct of that engine: 0.25 and 0.5.
BotRisk == {<<<<1, 4>>, <<1, 2>>>>}

\* The closes of the bars served to that engine.
BotCloses == {100 * PriceDen, 110 * PriceDen}

\* build_bot(config) with the moving-average strategy and a provider that
\* serves no bars, or two bars more than the long window.
InitBotMA ==
    /\ Constructed(ReplayCash, {2500}, {MoneyDen}, BotRisk)
    /\ strategy = MovingAverageCrossStrategy("AAPL", ShortWindow, LongWindow)
    /\ \E n \in {0, LongWindow + 2} : candles \in [1..n -> BotCloses]
    /\ oracle = << >>

\* LLMAutoTradingBot(config, ...) with the default LLM settings and a
\* provider that serves one bar less than minimum_history, or one bar more.
InitBotLLM ==
    /\ Constructed(ReplayCash, {2500}, {MoneyDen}, BotRisk)
    /\ strategy = LLMAgentStrategy("AAPL", DefaultMinConfidence, TRUE,
                                   DefaultInterval)
    /\ \E extra \in {0 - 1, 1} :
          /\ candles = [i \in 1..(LLMMinimumHistory + extra) |-> LLMPrice]
          /\ oracle \in [1..Max(0, extra + 1) -> BarInputs]

InitBot ==
    /\ InitBotMA \/ InitBotLLM
    /\ bt = BtIdle
    /\ equity_curve = << >>
    /\ results = None
    /\ earlier = None
    /\ clock = 0
    /\ call = NoSignalCall
    /\ emitted = << >>
    /\ loop = LoopOff
    /\ sched = SchedulerOff

\* bot.run_once() while no backtest runs, the provider serving the bars it
\* serves to the backtests.
BotRunOnce ==
    /\ bt.pc = "idle"
    /\ \/ RunOnceMA(candles)
       \/ \E elapsed \in ElapsedValues, i \in BarInputs :
             RunOnceLLM(elapsed,
                        IF Len(candles) = 0 THEN None
                        ELSE Some(candles[Len(candles)]),
                        i[1], i[2])

BotCalls ==
    \/ Backtest
    \/ \E elapsed \in (IF strategy.kind = "llm" THEN ElapsedValues ELSE {0}) :
          BacktestBar(elapsed)
    \/ BacktestReturn
    \/ BotRunOnce

\* run_once and backtest called on one engine, with either strategy.
SpecBot == InitBot /\ [][BotCalls]_vars

\* C27: only fills write the ledger.  A step of run_once or of backtest that
\* changes cash or positions is the reset at the start of a backtest, or has
\* submitted an order and leaves the ledger exactly as submit_order leaves
\* the ledger the step began with; so generate_signal of either strategy,
\* and the engine's own code, leave cash and positions as they were.
C27_OnlyFillsWriteLedger ==
    [][ ( cash' # cash \/ positions' # positions )
        => \/ ResetStep
           \/ /\ last'.order # None
              /\ LET r == SubmitOrderResult(cash, positions, trade_history,
                                            slippage_bps, commission,
                                            last'.order[1], last'.price)
                 IN  cash' = r.cash /\ positions' = r.positions ]_vars

\* C27 witness: on an engine that has run a backtest, run_once has called
\* generate_signal while a position was held, got a signal and traded on it.
C27_Witness ==
    /\ bt.runs >= 1
    /\ last.op = "run_once"
    /\ last.outcome = "trade"
    /\ call.op = "generate_signal"
    /\ call.signal # None
    /\ call.held > 0

---------------------------------------------------------------------------
(* The throttle's record and the order of the decision pipeline *)

\* last_decision and last_decision_time of the strategy object.
ThrottleRecord(strat) == <<strat.last_decision, strat.last_decision_time>>

\* C31: the throttle is armed only by an emitted signal.  A generate_signal
\* call of the LLM strategy that returns a Signal sets last_decision to the
\* decision's action and last_decision_time to the time of the call, whether
\* or not the engine then places an order; a call that returns none (the
\* call is throttled, the analysis or the oracle fails, the confidence is
\* below the minimum, the risk filter vetoes, the decision is HOLD) leaves
\* both as they were, and so does update_parameters.
C31_ThrottleArmedByEmission ==
    /\ [][ SignalCall =>
             IF call'.signal # None
             THEN ThrottleRecord(strategy')
                  = <<Some(Upper(call'.signal[1].action)), Some(call'.now)>>
             ELSE ThrottleRecord(strategy') = ThrottleRecord(strategy) ]_vars
    /\ [][ ~SignalCall
           => ThrottleRecord(strategy') = ThrottleRecord(strategy) ]_vars

\* C31 witness: a signal was emitted for which the engine placed no order,
\* and the throttle is armed with the time of that call.
C31_Witness ==
    /\ call.op = "generate_signal"
    /\ call.signal # None
    /\ last.op = "run_once"
    /\ last.outcome = "none"
    /\ strategy.last_decision_time = Some(call.now)
    /\ strategy.last_decision = Some(Upper(call.signal[1].action))

\* The number of calls of `name` in the sequence `calls`.
Count(calls, name) == Cardinality({k \in DOMAIN calls : calls[k] = name})

\* C32: the decision pipeline short-circuits in order.  A throttled
\* generate_signal call consults neither the analyzer nor the oracle; the
\* oracle is consulted at most once per call, and only after the analyzer
\* has given an analysis; the risk filter runs only on a decision that has
\* reached the minimum confidence.
C32_PipelineOrder ==
    ( call.op = "generate_signal" /\ strategy.kind = "llm" )
    => /\ TooSoon(call.now, call.before.last_decision_time,
                  call.before.min_decision_interval_minutes)
          => call.calls = << >>
       /\ Count(call.calls, "analyze_market") <= 1
       /\ Count(call.calls, "get_trading_decision") <= 1
       /\ Count(call.calls, "get_trading_decision") = 1
          => /\ call.calls[1] = "analyze_market"
             /\ call.calls[2] = "get_trading_decision"
             /\ call.analysis.outcome = "ok"
       /\ Count(call.calls, "_risk_filter") >= 1
          => /\ call.calls = <<"analyze_market", "get_trading_decision",
                               "_risk_filter">>
             /\ call.decision.outcome = "ok"
             /\ call.decision.confidence >= call.before.min_confidence

\* C32 witness: one call was throttled before anything was consulted while
\* an analysis and a buy decision stood ready.
C32_Witness ==
    /\ call.op = "generate_signal"
    /\ call.stage = "throttle"
    /\ call.calls = << >>
    /\ call.analysis.outcome = "ok"
    /\ call.decision.outcome = "ok"
    /\ call.decision.action = "BUY"


---------------------------------------------------------------------------
(* TradingScheduler: autotrader/agents/scheduler.py, with the calls the   *)
(* LLM engine makes on it, autotrader/llm_engine.py lines 88-151, 237-241. *)
(* The jobs are those of the schedule library's default scheduler: a job   *)
(* is due from its next_run until its run has come to an end, run_pending  *)
(* runs the jobs that were due when it was called, and clear() empties the *)
(* job list in place.  A job is named by the line that registers it, so    *)
(* how many equal jobs are registered is outside the model.                *)

\* The Thread objects start() creates in a run.
MaxThreads == 2

\* The days the clock goes through; day 1 is a Monday.
MaxDays == 2

\* Lines 46-47: the jobs that call _schedule_market_hours_trading at 09:30.
MarketOpenJobs == {"monday_open", "daily_open"}

\* Lines 50, 68, 69 and 72: the jobs that call the trading function, every
\* interval_minutes ("interval"; "trading" where tagged so) or at 09:30.
TradingJobs == {"interval", "open_run", "trading"}

\* Line 75: the job that calls _stop_daily_trading at 16:00.
CloseJobs == {"close"}

\* The jobs that run at 09:30, at 16:00, and after so many minutes.
AtOpen(day) ==
    {"daily_open", "open_run"}
    \cup (IF day % 7 = 1 THEN {"monday_open"} ELSE {})

AtClose == {"close"}

Periodic == {"interval", "trading"}

\* A thread of _run_scheduler: where it stands, the job it is running, the
\* jobs run_pending has still to run, those of them cleared from the
\* schedule since, and the order its run_once has sized.
NewThread ==
    [pc |-> "check", job |-> "", pending |-> {}, stale |-> {},
     order |-> None]

\* schedule.clear(): the jobs `names` leave the job list; a thread that
\* holds one of them goes on with the job it holds.
Cleared(s, names) ==
    [s EXCEPT
       !.jobs = @ \ names,
       !.due = @ \ names,
       !.threads = [t \in DOMAIN @ |->
                      [@[t] EXCEPT
                         !.stale = @ \cup (names \cap (s.threads[t].pending
                                       \cup {s.threads[t].job}))]]]

\* schedule.every(...).do(...): new jobs, whose next run is yet to come.
Registered(s, names) ==
    [s EXCEPT !.jobs = @ \cup names, !.due = @ \ names]

\* schedule_trading, lines 44-50.
schedule_trading(s, market_hours_only) ==
    IF market_hours_only THEN Registered(s, MarketOpenJobs)
    ELSE Registered(s, {"interval"})

\* _schedule_market_hours_trading, lines 59-75, run at the time `phase`:
\* schedule.clear() takes every job, those of lines 46-47 too.
schedule_market_hours_trading(s) ==
    LET c == Cleared(s, s.jobs)
    IN  IF s.phase = "before_open"
        THEN Registered(c, {"open_run", "trading", "close"})
        ELSE IF s.phase = "open"
        THEN Registered(c, {"trading", "close"})
        ELSE Registered(c, {"close"})

\* _stop_daily_trading, lines 77-80.
stop_daily_trading(s) == Cleared(s, {"trading"})

\* What the scheduler's calls leave alone.
BesideScheduler ==
    <<starting_cash, slippage_bps, commission, config, baseline, steps,
      candles, bt, equity_curve, results, earlier, strategy, clock, call,
      oracle, emitted, loop>>

Ledger == <<cash, positions, trade_history, last, ledger_log>>

\* The threads start() has created.
Threads == 1..Len(sched.threads)

\* self._thread.is_alive(), line 103.
Alive(s) == s.thread # 0 /\ s.threads[s.thread].pc # "done"

\* start(), lines 82-92, called by run_scheduled (llm_engine.py line 135) or
\* as the last step of update_llm_config (line 241).
Start ==
    /\ sched.main \in {"idle", "start"}
    /\ ~sched.running
    /\ Len(sched.threads) < MaxThreads
    /\ sched' = [sched EXCEPT
                   !.running = TRUE,
                   !.stop_event = FALSE,
                   !.threads = Append(@, NewThread),
                   !.thread = Len(sched.threads) + 1,
                   !.main = "idle"]
    /\ UNCHANGED <<Ledger, BesideScheduler>>

\* stop(), lines 94-104, up to the join: called by stop_scheduled
\* (llm_engine.py line 150) or by update_llm_config (line 239), which starts
\* the scheduler again.
Stop(caller) ==
    /\ sched.main = "idle"
    /\ sched.running
    /\ caller = "update_llm_config" => Len(sched.threads) < MaxThreads
    /\ sched' = [sched EXCEPT
                   !.running = FALSE,
                   !.stop_event = TRUE,
                   !.main = IF caller = "update_llm_config"
                            THEN "join_restart" ELSE "join"]
    /\ UNCHANGED <<Ledger, BesideScheduler>>

\* Line 104: join(timeout=5) returns when the thread has come to its end,
\* or after five seconds, which a thread inside a job can outlast.
JoinOver(s) == ~Alive(s) \/ s.threads[s.thread].pc = "job"

\* stop(), lines 104-107, from the join on.
Joined ==
    /\ sched.main \in {"join", "join_restart"}
    /\ JoinOver(sched)
    /\ sched' = [Cleared(sched, sched.jobs) EXCEPT
                   !.main = IF sched.main = "join_restart" THEN "setup"
                            ELSE "idle"]
    /\ UNCHANGED <<Ledger, BesideScheduler>>

\* _setup_scheduler, llm_engine.py lines 88-111, in update_llm_config.
SetupScheduler ==
    /\ sched.main = "setup"
    /\ sched' = [schedule_trading(sched, sched.market_hours_only) EXCEPT
                   !.main = "start"]
    /\ UNCHANGED <<Ledger, BesideScheduler>>

\* _run_scheduler, line 111 and the call of run_pending of line 113, which
\* takes the jobs that are due.
CheckLoop(t) ==
    /\ sched.threads[t].pc = "check"
    /\ sched' = [sched EXCEPT
                   !.threads[t] =
                       IF sched.running /\ ~sched.stop_event
                       THEN [@ EXCEPT !.pc = "pending",
                                      !.pending = sched.jobs \cap sched.due]
                       ELSE [@ EXCEPT !.pc = "done"]]
    /\ UNCHANGED <<Ledger, BesideScheduler>>

\* What the scheduled run_once meets: the signal of the strategy, at the
\* close PriceDen.
SchedulerSignals == {None, Some("buy")}

\* The trades the scheduled runs are followed through.
MaxScheduledTrades == 1

\* run_pending calls the job j.  Where j is the trading function this is
\* run_once, engine.py lines 46-61: up to the order it has sized.
JobStart(t, j, signal) ==
    /\ sched.threads[t].pc = "pending"
    /\ j \in sched.threads[t].pending
    /\ j \notin TradingJobs => signal = None
    /\ signal # None => Len(trade_history) < MaxScheduledTrades
    /\ sched' = [sched EXCEPT
                   !.threads[t] =
                       [@ EXCEPT
                          !.pc = "job", !.job = j, !.pending = @ \ {j},
                          !.order = IF signal = None THEN None
                                    ELSE CreateOrder(cash, positions, config,
                                                     signal[1], config.symbol,
                                                     PriceDen)]]
    /\ UNCHANGED <<Ledger, BesideScheduler>>

\* Job.run once the function has returned: the job's next run is set, of
\* the job the thread holds.
Ran(s, t) ==
    LET j == s.threads[t].job
    IN  [s EXCEPT
           !.due = IF j \in s.threads[t].stale THEN @ ELSE @ \ {j},
           !.threads[t] = [@ EXCEPT !.pc = "pending", !.job = "",
                                    !.stale = @ \ {j}, !.order = None]]

\* The trading function comes to its end: run_once, engine.py lines 62-67,
\* submits the order it has sized; execute_llm_trading, llm_engine.py lines
\* 95-103, keeps what run_once raises.
TradingJobEnd(t) ==
    /\ sched.threads[t].pc = "job"
    /\ sched.threads[t].job \in TradingJobs
    /\ \E order \in {sched.threads[t].order} :
          IF order = None
          THEN UNCHANGED Ledger
          ELSE \E r \in {SubmitOrderResult(cash, positions, trade_history,
                                           slippage_bps, commission,
                                           order[1], PriceDen)} :
                  /\ cash' = r.cash
                  /\ positions' = r.positions
                  /\ trade_history' = r.trade_history
                  /\ ledger_log' = Logged(ledger_log, r.outcome,
                                          order[1].side, order[1].quantity,
                                          FillPrice(order[1].side, PriceDen,
                                                    slippage_bps),
                                          commission)
                  /\ last' = [NoCall EXCEPT
                                 !.op = "run_once", !.price = PriceDen,
                                 !.side = order[1].side,
                                 !.outcome = r.outcome]
    /\ sched' = Ran(sched, t)
    /\ UNCHANGED BesideScheduler

\* _schedule_market_hours_trading comes to its end.
MarketOpenJobEnd(t) ==
    /\ sched.threads[t].pc = "job"
    /\ sched.threads[t].job \in MarketOpenJobs
    /\ sched' = Ran(schedule_market_hours_trading(sched), t)
    /\ UNCHANGED <<Ledger, BesideScheduler>>

\* _stop_daily_trading comes to its end.
CloseJobEnd(t) ==
    /\ sched.threads[t].pc = "job"
    /\ sched.threads[t].job \in CloseJobs
    /\ sched' = Ran(stop_daily_trading(sched), t)
    /\ UNCHANGED <<Ledger, BesideScheduler>>

\* run_pending returns and line 114 sleeps.
RunPendingReturns(t) ==
    /\ sched.threads[t].pc = "pending"
    /\ sched.threads[t].pending = {}
    /\ sched' = [sched EXCEPT !.threads[t].pc = "sleep"]
    /\ UNCHANGED <<Ledger, BesideScheduler>>

\* Line 114: time.sleep(1) returns.
Wake(t) ==
    /\ sched.threads[t].pc = "sleep"
    /\ sched' = [sched EXCEPT !.threads[t].pc = "check"]
    /\ UNCHANGED <<Ledger, BesideScheduler>>

\* The time of day passes 09:30, 16:00 or midnight: the jobs set for that
\* time become due.
Tick ==
    /\ sched.phase = "closed" => sched.day < MaxDays
    /\ sched' = [sched EXCEPT
                   !.phase = IF @ = "before_open" THEN "open"
                             ELSE IF @ = "open" THEN "closed"
                             ELSE "before_open",
                   !.day = IF sched.phase = "closed" THEN @ + 1 ELSE @,
                   !.due = IF sched.phase = "before_open"
                           THEN @ \cup (sched.jobs \cap AtOpen(sched.day))
                           ELSE IF sched.phase = "open"
                           THEN @ \cup (sched.jobs \cap AtClose)
                           ELSE @]
    /\ UNCHANGED <<Ledger, BesideScheduler>>

\* interval_minutes have passed since the job j was set.
IntervalElapses(j) ==
    /\ j \in (sched.jobs \cap Periodic) \ sched.due
    /\ sched' = [sched EXCEPT !.due = @ \cup {j}]
    /\ UNCHANGED <<Ledger, BesideScheduler>>

\* LLMAutoTradingBot(config, ...), llm_engine.py lines 40-69, at some time
\* of Monday: the ledger, the scheduler and the jobs of _setup_scheduler.
InitScheduler ==
    /\ Constructed({8 * MoneyDen}, {2500}, {0}, {<<<<1, 4>>, <<1, 2>>>>})
    /\ candles = << >>
    /\ bt = BtIdle
    /\ equity_curve = << >>
    /\ results = None
    /\ earlier = None
    /\ strategy = NoStrategy
    /\ clock = 0
    /\ call = NoSignalCall
    /\ oracle = << >>
    /\ emitted = << >>
    /\ loop = LoopOff
    /\ \E m \in BOOLEAN, p \in {"before_open", "open", "closed"} :
          sched = schedule_trading(
                      [SchedulerOff EXCEPT !.market_hours_only = m,
                                           !.phase = p], m)

SchedulerCalls ==
    \/ Start
    \/ \E caller \in {"stop_scheduled", "update_llm_config"} : Stop(caller)
    \/ Joined
    \/ SetupScheduler
    \/ \E t \in Threads : CheckLoop(t)
    \/ \E t \in Threads, j \in TradingJobs \cup MarketOpenJobs \cup CloseJobs,
          signal \in SchedulerSignals : JobStart(t, j, signal)
    \/ \E t \in Threads : TradingJobEnd(t)
    \/ \E t \in Threads : MarketOpenJobEnd(t)
    \/ \E t \in Threads : CloseJobEnd(t)
    \/ \E t \in Threads : RunPendingReturns(t)
    \/ \E t \in Threads : Wake(t)
    \/ Tick
    \/ \E j \in Periodic : IntervalElapses(j)

SpecScheduler == InitScheduler /\ [][SchedulerCalls]_vars


---------------------------------------------------------------------------
(* Properties of the scheduler *)

\* The threads that are inside an execution of the trading function.
Executing == {t \in Threads : /\ sched.threads[t].pc = "job"
                              /\ sched.threads[t].job \in TradingJobs}

\* The threads that are running the loop of _run_scheduler.
Looping == {t \in Threads : sched.threads[t].pc # "done"}

\* C33: one scheduler worker at a time.  After any sequence of start() and
\* stop() calls, the restart of update_llm_config with a join that times out
\* included, at most one thread is running the scheduler loop, and no two
\* executions of the trading function overlap.
C33_OneWorker ==
    /\ Cardinality(Looping) <= 1
    /\ Cardinality(Executing) <= 1

\* C34: market-hours scheduling keeps recurring.  With market_hours_only
\* set and the scheduler left running (started once and never stopped),
\* once the 16:00 job has cleared the interval jobs a 09:30 job that sets
\* them again is still scheduled.
C34_RecursDaily ==
    [][ \A t \in Threads :
           /\ sched.market_hours_only
           /\ sched.running /\ Len(sched.threads) = 1
           /\ sched.threads[t].pc = "job"
           /\ sched.threads[t].job \in CloseJobs
           /\ sched'.threads[t].pc # "job"
           => sched'.jobs \cap MarketOpenJobs # {} ]_vars


---------------------------------------------------------------------------
(* The trades of a moving-average backtest *)

\* buy, sell, buy, sell, ...: the odd trades are buys, the even ones sells.
Alternating(history) ==
    \A k \in DOMAIN history :
       history[k].order.side = IF k % 2 = 1 THEN "buy" ELSE "sell"

\* The step is a bar of a moving-average backtest that made a trade.
MATradeStep ==
    /\ strategy.kind = "ma"
    /\ bt.pc = "loop"
    /\ Len(trade_history') = Len(trade_history) + 1

\* C35: under the moving-average strategy the trades of a backtest
\* alternate buy, sell, buy, sell, ... starting with a buy, in the history
\* while the backtest runs and in the report it returns; a buy is executed
\* from a flat position only and a sell from an open one only, which it
\* closes; so the buys exceed the sells by at most one.
C35_TradesAlternate ==
    /\ [](strategy.kind = "ma" /\ bt.pc = "loop"
              => Alternating(trade_history))
    /\ [](strategy.kind = "ma" /\ results # None /\ results[1].outcome = "ok"
              => Alternating(results[1].trades))
    /\ [][ MATradeStep
           => LET side == trade_history'[Len(trade_history')].order.side
                  held == position_size(positions, config.symbol)
                  held_after == position_size(positions', config.symbol)
              IN  /\ side = "buy" => held = 0 /\ held_after > 0
                  /\ side = "sell" => held > 0 /\ held_after = 0
                  /\ side \in {"buy", "sell"} ]_vars

\* A moving-average backtest has returned a report with a buy, the sell
\* that closed it and a second buy.
C35_Witness ==
    /\ strategy.kind = "ma"
    /\ results # None
    /\ results[1].outcome = "ok"
    /\ Len(results[1].trades) >= 3
    /\ last.op = "backtest"
    /\ trade_history = results[1].trades


---------------------------------------------------------------------------
(* A sell of a symbol the ledger does not hold *)

\* C38: a sell never succeeds for a symbol with no open position.  For
\* every quantity > 0, update_on_fill with side sell on a symbol absent
\* from the positions mapping raises and leaves cash as it was.
C38_SellOfAbsentRaises ==
    [][ ( /\ last'.op = "update_on_fill"
          /\ Lower(last'.side) = "sell"
          /\ last'.quantity > 0
          /\ last'.symbol \notin DOMAIN positions )
        => ( /\ last'.outcome = "RuntimeError"
             /\ cash' = cash ) ]_vars


---------------------------------------------------------------------------
(* The value a fill moves *)

\* total_equity({symbol: price}) of the ledger (c, pos).
EquityAt(c, pos, symbol, price) == total_equity(c, pos, symbol :> price)

\* The step is a sell through the venue that follows at once a buy of the
\* same order at the same market price, both filled.
RoundTrip ==
    /\ last.op = "submit_order" /\ last.outcome = "ok" /\ last.side = "buy"
    /\ last'.op = "submit_order" /\ last'.outcome = "ok"
    /\ last'.side = "sell"
    /\ last'.symbol = last.symbol
    /\ last'.quantity = last.quantity
    /\ last'.price = last.price

\* The fills conserve value: a successful update_on_fill leaves the equity
\* valued at the fill price lower by the commission, no more and no less.
FillConservesValue ==
    [][ last'.op = "update_on_fill" /\ last'.outcome = "ok"
        => EquityAt(cash', positions', last'.symbol, last'.price)
              = EquityAt(cash, positions, last'.symbol, last'.price)
                   - commission ]_vars

\* A buy and the sell of the same quantity at the same market price never
\* leave more cash than there was before the buy.
RoundTripGainsNothing ==
    [][ RoundTrip
        => cash' <= cash + BuyTotalCost(last.quantity,
                                        FillPrice("buy", last.price,
                                                  slippage_bps),
                                        commission) ]_vars

\* C36: a fill moves value between cash and position without creating any.
\* For every successful update_on_fill the total equity valued at the fill
\* price is after the fill what it was before less exactly the commission;
\* and a buy followed by a sell of the same quantity through PaperBroker at
\* the same market price never increases cash.
C36_FillsConserveValue == FillConservesValue /\ RoundTripGainsNothing


---------------------------------------------------------------------------
(* The report of a backtest *)

\* A backtest has returned a report, which `results` holds.
Reported == results # None /\ results[1].outcome = "ok"

\* C37: the backtest report is self-consistent.  When its equity curve is
\* not empty, ending_equity is the equity of the curve's last entry; its
\* total_return is ending_equity / config.cash - 1, config.cash being the
\* cash the ledger was reset to; and when the window has fewer bars than
\* minimum_history the report has an empty curve, no trades, ending_equity
\* equal to config.cash, total_return 0 and max_drawdown 0.
C37_ReportConsistent ==
    Reported =>
       LET r == results[1]
           n == Len(r.equity_curve)
       IN  /\ n > 0 => r.ending_equity = r.equity_curve[n][2]
           /\ baseline = config.cash
           /\ r.total_return[2] > 0
           /\ r.total_return[1] * config.cash
                 = (r.ending_equity - config.cash) * r.total_return[2]
           /\ Len(candles) < minimum_history(strategy)
                 => /\ r.equity_curve = << >>
                    /\ r.trades = << >>
                    /\ r.ending_equity = config.cash
                    /\ r.total_return[1] = 0
                    /\ r.max_drawdown[1] = 0

\* A backtest has just returned a report whose curve has several entries,
\* with a trade, and an ending equity that is not the cash it started from.
C37_Witness ==
    /\ Reported
    /\ last.op = "backtest"
    /\ Len(results[1].equity_curve) >= 2
    /\ Len(results[1].trades) >= 1
    /\ results[1].ending_equity # config.cash
    /\ results[1].total_return[1] # 0

===========================================================================
